---- MODULE Spec2Model ----
(***************************************************************************)
(* Two-stage retrieval and salience feedback of janatpmp (ATLAS):          *)
(* services/vector_store.py search / search_all, atlas/pipeline.py,        *)
(* atlas/reranking_service.py and atlas/memory_service.py.                 *)
(*                                                                         *)
(* Numbers: every float of the code (scores, salience, rates) is a         *)
(* fixed-point integer in thousandths, 1.0 = ONE = 1000.  Scores are drawn *)
(* from multiples of 0.1, so every product with a rate is exact.           *)
(* Optional dict keys (salience, last_retrieved, rerank_score, ...) are    *)
(* sequences of length 0 (key absent) or 1 (key present).                  *)
(***************************************************************************)
EXTENDS Integers, Sequences, FiniteSets, TLC

VARIABLES
    index,        \* Qdrant: collection name -> point id -> payload
    client,       \* vector_store._client: "none" or "connected"
    reranker,     \* reranking_service._reranker: "none" or "loaded"
    loadError,    \* reranking_service._reranker_load_error is set
    model,        \* services.embedding._model: "none" or "loaded"
    embedder,     \* embedding_service._embedder: "none" or "loaded"
    embedderLoadError, \* embedding_service._embedder_load_error is set
    failed,       \* the models whose load has raised so far
    clock,        \* datetime.now(): the number of times it was read
    calls,        \* number of calls made so far
    last,         \* the last call: its arguments and what it returned
    pre,          \* index as it was before the last call
    threads,      \* concurrent callers: where each one is in its call
    generation    \* number of NemotronReranker objects created so far

vars ==
    <<index, client, reranker, loadError, model, embedder, embedderLoadError,
      failed, clock, calls, last, pre, threads, generation>>

\* ---------------------------------------------------------------- constants
ONE == 1000
SALIENCE_BOOST_RATE == 50
SALIENCE_DEFAULT == 500
SALIENCE_USAGE_RATE == 30
SALIENCE_DECAY_RATE == 10
USAGE_BOOST_ABOVE == 300
USAGE_DECAY_BELOW == 100
RERANK_CANDIDATES == 20
COLLECTION_DOCUMENTS == "janatpmp_documents"
COLLECTION_MESSAGES == "janatpmp_messages"
BATCH_SIZE == 4
MAX_TEXT_CHARS == 8000
MIN_CONTENT_CHARS == 10
MIN_MESSAGE_CHARS == 20
RAG_SCORE_THRESHOLD == 300

\* ------------------------------------------------------------------- bounds
NumDocs == 21
NumMsgs == 2
MaxLimit == 2
MaxSearches == 2
MaxWrites == 2
MaxComputes == 1
MaxReranks == 2
MaxAccesses == 2
MaxUpserts == 2
MaxRuns == 2
MaxTurns == 2
NumThreads == 2

Collections == {COLLECTION_DOCUMENTS, COLLECTION_MESSAGES}
\* two sample queries: AnnScore and RerankLogit say how each relates to the points
Queries == {1, 2}
Limits == 1..MaxLimit

PointIds(c) == IF c = COLLECTION_DOCUMENTS THEN 1..NumDocs ELSE 1..NumMsgs

Min(a, b) == IF a <= b THEN a ELSE b
Max(a, b) == IF a >= b THEN a ELSE b

\* a * b of two thousandths, in thousandths
Mul(a, b) == (a * b) \div ONE

\* list[:n]
Take(s, n) == SubSeq(s, 1, Min(n, Len(s)))

\* ---------------------------------------------------- the external models
\* cosine similarity of query q and the stored vector of point p
AnnScore(q, c, p) ==
    IF c = COLLECTION_DOCUMENTS
    THEN IF q = 1 THEN 1000 - 40 * p ELSE 100 + 40 * ((p * 7) % 11)
    ELSE IF q = 1 THEN 500 + 100 * p ELSE 900 - 100 * p

\* cross-encoder logit of (query q, text of point p): a raw logit, any sign
RerankLogit(q, c, p) ==
    IF c = COLLECTION_DOCUMENTS
    THEN IF q = 1 THEN (((p * 5 + 4) % 7) - 3) * 4000
                  ELSE 1100 - 100 * ((p * 9) % 11)
    ELSE IF q = 1 THEN 1500 - 1000 * p ELSE 200 * p

\* ------------------------------------------------------------------ points
\* A text is its content (body, a number naming it) and its length in
\* characters: the text of the same body and a smaller len is a prefix of it.
\* AnnScore and RerankLogit give the scores of a query against a body.
Text(body, len) == [body |-> body, len |-> len]

\* model.encode(texts, prompt_name="document"): the vector of one passage
EmbedPassage(text) == [kind |-> "document", of |-> text]

\* PointStruct(id, vector, payload={"text": text, **metadata}): a point as the
\* index stores it, meta being the other payload keys; no salience yet
Point(vector, text, meta) ==
    [vector |-> vector, text |-> text, meta |-> meta,
     salience |-> <<>>, last_retrieved |-> <<>>, last_usage_signal |-> <<>>]

\* the point p of the sample corpus of collection c: passage p, embedded
SeedPoint(c, p) == Point(EmbedPassage(Text(p, 100)), Text(p, 100), 0)

\* -------------------------------------------------------------- candidates
\* {"id": str(hit.id), "score": hit.score, **hit.payload} for the point p,
\* stored as pt, of collection c
HitOf(q, c, p, pt) ==
    [id |-> p, score |-> AnnScore(q, c, pt.vector.of.body), text |-> pt.text,
     rerank_score |-> <<>>, source_collection |-> <<>>]

\* the candidate of point p of the sample corpus
Candidate(q, c, p) == HitOf(q, c, p, SeedPoint(c, p))

\* x.get(k, 0) for the two sort keys
KeyOf(x, k) ==
    IF k = "score" THEN x.score
    ELSE IF x.rerank_score = <<>> THEN 0 ELSE x.rerank_score[1]

RECURSIVE InsertDesc(_, _, _)
InsertDesc(sorted, x, k) ==
    IF sorted = <<>> THEN <<x>>
    ELSE IF KeyOf(Head(sorted), k) >= KeyOf(x, k)
         THEN <<Head(sorted)>> \o InsertDesc(Tail(sorted), x, k)
         ELSE <<x>> \o sorted

\* sorted(s, key=..., reverse=True) / list.sort(key=..., reverse=True): stable
RECURSIVE SortDesc(_, _)
SortDesc(s, k) ==
    IF s = <<>> THEN <<>>
    ELSE InsertDesc(SortDesc(SubSeq(s, 1, Len(s) - 1), k), s[Len(s)], k)

\* ------------------------------------------------------------ vector index
\* ids 1..n in ascending (rev = FALSE) or descending (rev = TRUE) order
RECURSIVE IdSeq(_, _)
IdSeq(n, rev) ==
    IF n = 0 THEN <<>>
    ELSE IF rev THEN <<n>> \o IdSeq(n - 1, rev) ELSE IdSeq(n - 1, rev) \o <<n>>

\* every point of the collection as a hit, best cosine first; Qdrant orders
\* equal scores either way (tieRev)
AnnRanking ==
    [c \in Collections, q \in Queries, tieRev \in BOOLEAN |->
        LET ids == IdSeq(Cardinality(PointIds(c)), tieRev)
        IN SortDesc([i \in 1..Len(ids) |-> Candidate(q, c, ids[i])], "score")]

\* the elements of a set of ids as a list, ascending or descending
Ordered(S, rev) ==
    [k \in 1..Cardinality(S) |->
        CHOOSE i \in S :
            Cardinality({j \in S : IF rev THEN j > i ELSE j < i}) = k - 1]

\* the points pts hold the passages and vectors of the sample corpus of c
Seeded(pts, c) ==
    /\ DOMAIN pts = PointIds(c)
    /\ \A p \in PointIds(c) :
         /\ pts[p].vector = SeedPoint(c, p).vector
         /\ pts[p].text = SeedPoint(c, p).text

\* every point of pts as a hit, best cosine first
Ranking(pts, c, q, ids) ==
    SortDesc([i \in 1..Len(ids) |-> HitOf(q, c, ids[i], pts[ids[i]])], "score")

\* client.query_points(collection, query_vector, limit, with_payload=True)
\* and the list of candidate dicts built from its hits (AnnRanking is the
\* ranking of the sample corpus, computed once)
QueryPoints(idx, c, q, limit, tieRev) ==
    IF Seeded(idx[c], c) THEN Take(AnnRanking[c, q, tieRev], limit)
    ELSE Take(Ranking(idx[c], c, q, Ordered(DOMAIN idx[c], tieRev)), limit)

\* payload.get("salience", SALIENCE_DEFAULT)
CurrentSalience(payload) ==
    IF payload.salience = <<>> THEN SALIENCE_DEFAULT ELSE payload.salience[1]

\* set_payload putting the given keys in place of the whole payload
SetPayloadReplaces(idx, c, p, keys) ==
    IF c \in DOMAIN idx /\ p \in DOMAIN idx[c]
    THEN [idx EXCEPT ![c][p] =
            [k \in DOMAIN @ |->
                IF k \in DOMAIN keys THEN keys[k]
                ELSE IF k = "vector" THEN @[k]
                ELSE IF k = "text" THEN Text(0, 0)
                ELSE IF k = "meta" THEN 0
                ELSE <<>>]]
    ELSE idx

\* client.set_payload(collection, payload, points=[id]): merges the keys
SetPayload(idx, c, p, keys) ==
    IF c \in DOMAIN idx /\ p \in DOMAIN idx[c]
    THEN [idx EXCEPT ![c][p] =
            [k \in DOMAIN @ |-> IF k \in DOMAIN keys THEN keys[k] ELSE @[k]]]
    ELSE idx

\* client.retrieve(collection, [id]) raises: unknown collection or backend fault
RetrieveRaises(idx, c, p, env) == c \notin DOMAIN idx \/ p \in env.retrFail

\* ------------------------------------------------------- salience feedback
\* result.get("rerank_score", 0.0)
RerankScoreOf(r) == IF r.rerank_score = <<>> THEN 0 ELSE r.rerank_score[1]

\* new_salience with the score replacing the salience instead of nudging it
BoostReplaces(current, rerank_score) ==
    Min(ONE, Mul(rerank_score, SALIENCE_BOOST_RATE))

\* new_salience with the nudge subtracted
BoostSubtracts(current, rerank_score) ==
    Min(ONE, current - Mul(rerank_score, SALIENCE_BOOST_RATE))

\* new_salience of write_salience
BoostedSalience(current, rerank_score) ==
    Min(ONE, current + Mul(rerank_score, SALIENCE_BOOST_RATE))

\* the loop body ended normally, or through `continue`
Done(idx) == [raised |-> FALSE, index |-> idx]

\* the body of the loop without its try/except
Uncaught(idx) == [raised |-> TRUE, index |-> idx]

\* except Exception: logger.debug(...) around the body of the loop
Caught(idx) == [raised |-> FALSE, index |-> idx]

\* current_salience as the loop reads it: retrieved[0].payload.get(...), or
\* the default when nothing was retrieved
ReadSalience(idx, c, p) ==
    IF p \in DOMAIN idx[c] THEN CurrentSalience(idx[c][p]) ELSE SALIENCE_DEFAULT

\* one iteration of the loop of write_salience: [raised, index]
WriteSalienceStep(idx, c, r, now, env) ==
    IF r.id = 0 THEN Done(idx)
    ELSE IF RetrieveRaises(idx, c, r.id, env) THEN Caught(idx)
    ELSE IF r.id \in env.setFail THEN Caught(idx)
    ELSE Done(SetPayload(idx, c, r.id,
            [salience |-> <<BoostedSalience(ReadSalience(idx, c, r.id),
                                            RerankScoreOf(r))>>,
             last_retrieved |-> <<now>>]))

RECURSIVE WriteSalienceGuarded(_, _, _, _, _)
\* the loop with one try around all of it: the first failure ends it
WriteSalienceGuarded(idx, c, results, now, env) ==
    IF results = <<>> THEN Done(idx)
    ELSE IF /\ Head(results).id # 0
            /\ \/ RetrieveRaises(idx, c, Head(results).id, env)
               \/ Head(results).id \in env.setFail
    THEN Caught(idx)
    ELSE WriteSalienceGuarded(
            WriteSalienceStep(idx, c, Head(results), now, env).index,
            c, Tail(results), now, env)

\* the ids the loop of a feedback call hands to client.retrieve, in order:
\* none when _get_client() raised, and none for a result whose id is falsy
Lookups(g, results) ==
    IF g.raised THEN <<>>
    ELSE LET valid == SelectSeq(results, LAMBDA r : r.id # 0)
         IN  [i \in 1..Len(valid) |-> valid[i].id]

RECURSIVE WriteSalienceLoop(_, _, _, _, _)
\* the rest of the loop after one iteration
WriteSalienceRest(step, c, rest, now, env) ==
    IF step.raised THEN step
    ELSE WriteSalienceLoop(step.index, c, rest, now, env)

\* for result in results: ...
WriteSalienceLoop(idx, c, results, now, env) ==
    IF results = <<>> THEN Done(idx)
    ELSE WriteSalienceRest(WriteSalienceStep(idx, c, Head(results), now, env),
                           c, Tail(results), now, env)

\* _get_client(): [raised, client]
GetClient(cl, env) ==
    IF cl = "connected" THEN [raised |-> FALSE, client |-> cl]
    ELSE IF env.connectOk THEN [raised |-> FALSE, client |-> "connected"]
    ELSE [raised |-> TRUE, client |-> cl]

\* a feedback call once _get_client() answered g: [raised, index, client]
Feedback(g, idx, loop) ==
    IF g.raised
    THEN [raised |-> FALSE, index |-> idx, client |-> g.client]
    ELSE [raised |-> loop.raised, index |-> loop.index, client |-> g.client]

\* write_salience(collection, results): [raised, index, client]
WriteSalience(idx, cl, c, results, now, env) ==
    Feedback(GetClient(cl, env), idx,
             WriteSalienceLoop(idx, c, results, now, env))

\* new_salience with the two thresholds taken into the boost and the decay
UsageSalienceClosed(current, usage_score) ==
    IF usage_score >= USAGE_BOOST_ABOVE
    THEN <<Min(ONE, current + Mul(usage_score, SALIENCE_USAGE_RATE))>>
    ELSE IF usage_score <= USAGE_DECAY_BELOW
    THEN <<Max(0, current - SALIENCE_DECAY_RATE)>>
    ELSE <<>>

\* new_salience of write_usage_salience; <<>> in the neutral zone
UsageSalience(current, usage_score) ==
    IF usage_score > USAGE_BOOST_ABOVE
    THEN <<Min(ONE, current + Mul(usage_score, SALIENCE_USAGE_RATE))>>
    ELSE IF usage_score < USAGE_DECAY_BELOW
    THEN <<Max(0, current - SALIENCE_DECAY_RATE)>>
    ELSE <<>>

\* the write of one iteration of write_usage_salience, new being new_salience
WriteUsage(idx, c, r, now, env, new) ==
    IF new = <<>> THEN Done(idx)
    ELSE IF r.id \in env.setFail THEN Caught(idx)
    ELSE Done(SetPayload(idx, c, r.id,
                [salience |-> new, last_usage_signal |-> <<now>>]))

\* one iteration of the loop of write_usage_salience: [raised, index]
WriteUsageStep(idx, c, r, now, env) ==
    IF r.id = 0 THEN Done(idx)
    ELSE IF RetrieveRaises(idx, c, r.id, env) THEN Caught(idx)
    ELSE WriteUsage(idx, c, r, now, env,
                    UsageSalience(ReadSalience(idx, c, r.id), r.usage_score))

RECURSIVE WriteUsageLoop(_, _, _, _, _)
WriteUsageRest(step, c, rest, now, env) ==
    IF step.raised THEN step
    ELSE WriteUsageLoop(step.index, c, rest, now, env)

WriteUsageLoop(idx, c, results, now, env) ==
    IF results = <<>> THEN Done(idx)
    ELSE WriteUsageRest(WriteUsageStep(idx, c, Head(results), now, env),
                        c, Tail(results), now, env)

\* write_usage_salience(collection, usage_results): [raised, index, client]
WriteUsageSalience(idx, cl, c, results, now, env) ==
    Feedback(GetClient(cl, env), idx,
             WriteUsageLoop(idx, c, results, now, env))

\* ---------------------------------------------------------------- reranker
\* the scoring loop building fresh dicts that keep id and text only
ScoredAfresh(q, c, candidates) ==
    [i \in 1..Len(candidates) |->
        [candidates[i] EXCEPT
            !.rerank_score = <<RerankLogit(q, c, candidates[i].text.body)>>,
            !.score = 0, !.source_collection = <<>>]]

\* the candidate dicts after the scoring loop of rerank(): each carries its
\* rerank_score, in the caller's order (the dicts are mutated in place)
Scored(q, c, candidates) ==
    [i \in 1..Len(candidates) |->
        [candidates[i] EXCEPT
            !.rerank_score = <<RerankLogit(q, c, candidates[i].text.body)>>]]

\* rerank() returning the scored candidates without sorting them
RerankUnsorted(q, c, candidates) == Scored(q, c, candidates)

\* NemotronReranker.rerank: scores every candidate, sorts by rerank_score
Rerank(q, c, candidates) ==
    IF candidates = <<>> THEN candidates
    ELSE SortDesc(Scored(q, c, candidates), "rerank_score")

\* reranker.rerank(query, candidates) called on a loaded reranker:
\* [raised, result, candidates (the caller's list afterwards),
\*  invoked (self.model was run)]
RerankCall(q, c, candidates, env) ==
    IF candidates = <<>>
    THEN [raised |-> FALSE, result |-> candidates, candidates |-> candidates,
          invoked |-> FALSE]
    ELSE IF ~env.inferOk
    THEN [raised |-> TRUE, result |-> <<>>, candidates |-> candidates,
          invoked |-> TRUE]
    ELSE [raised |-> FALSE, result |-> Rerank(q, c, candidates),
          candidates |-> Scored(q, c, candidates), invoked |-> TRUE]

\* get_reranker(): [raised, reranker, loadError]
GetReranker(rr, le, env) ==
    IF le THEN [raised |-> TRUE, reranker |-> rr, loadError |-> le]
    ELSE IF rr = "none"
         THEN IF env.loadOk
              THEN [raised |-> FALSE, reranker |-> "loaded", loadError |-> le]
              ELSE [raised |-> TRUE, reranker |-> rr, loadError |-> TRUE]
         ELSE [raised |-> FALSE, reranker |-> rr, loadError |-> le]

\* release_reranker(): [raised, reranker]; unload() raises when model.to does
ReleaseReranker(rr, env) ==
    IF rr = "none" THEN [raised |-> FALSE, reranker |-> rr]
    ELSE IF env.unloadOk THEN [raised |-> FALSE, reranker |-> "none"]
    ELSE [raised |-> TRUE, reranker |-> rr]

\* ---------------------------------------------------------------- pipeline
\* the fallback without the cut to limit
FallbackUncut(candidates, limit) == candidates

\* except Exception: return candidates[:limit]
Fallback(candidates, limit) == Take(candidates, limit)

\* the list cut to limit before it is written back
WriteBackTop(reranked, limit) == Take(reranked, limit)

\* write_salience(collection, reranked): the whole reranked list
WriteBackList(reranked, limit) == reranked

\* pipeline lines 45-51, w being what write_salience did: its exception is
\* logged, and reranked[:limit] is returned
WrittenBack(w, reranked, limit, mine, rr, le) ==
    [raised |-> FALSE, result |-> Take(reranked, limit), candidates |-> mine,
     index |-> w.index, reranker |-> rr, loadError |-> le,
     reranked |-> TRUE, rerankRaised |-> FALSE, writeRaised |-> w.raised]

\* rerank_and_write_salience(query, candidates, collection, limit), with
\* returned = what reranker.rerank(query, candidates) returns when it returns:
\* [raised, result, candidates (the caller's list afterwards), index,
\*  reranker, loadError, reranked, rerankRaised, writeRaised]
RerankAndWriteSalience(idx, cl, rr, le, now, q, c, candidates, limit, env, returned) ==
    IF candidates = <<>>
    THEN [raised |-> FALSE, result |-> candidates, candidates |-> candidates,
          index |-> idx, reranker |-> rr, loadError |-> le,
          reranked |-> FALSE, rerankRaised |-> FALSE, writeRaised |-> FALSE]
    ELSE
    LET g == GetReranker(rr, le, env)
        rerankRaised == g.raised \/ ~env.inferOk
        mine == IF rerankRaised THEN candidates ELSE Scored(q, c, candidates)
        rel == ReleaseReranker(g.reranker, env)
    IN IF rel.raised
       THEN [raised |-> TRUE, result |-> <<>>, candidates |-> mine,
             index |-> idx, reranker |-> rel.reranker, loadError |-> g.loadError,
             reranked |-> FALSE, rerankRaised |-> rerankRaised,
             writeRaised |-> FALSE]
       ELSE IF rerankRaised
       THEN [raised |-> FALSE, result |-> Fallback(candidates, limit),
             candidates |-> mine,
             index |-> idx, reranker |-> rel.reranker, loadError |-> g.loadError,
             reranked |-> FALSE, rerankRaised |-> TRUE, writeRaised |-> FALSE]
       ELSE WrittenBack(WriteSalience(idx, cl, c,
                                      WriteBackList(returned, limit), now, env),
                        returned, limit, mine, rel.reranker, g.loadError)

\* ------------------------------------------------------------------ search
\* reranker.rerank(query, candidates) on the RERANK_CANDIDATES nearest points
RerankOfAnn ==
    [c \in Collections, q \in Queries, tieRev \in BOOLEAN |->
        Rerank(q, c, Take(AnnRanking[c, q, tieRev], RERANK_CANDIDATES))]

\* reranker.rerank(query, candidates) on the candidates search found
RerankOf(idx, c, q, candidates, tieRev) ==
    IF Seeded(idx[c], c) THEN RerankOfAnn[c, q, tieRev]
    ELSE Rerank(q, c, candidates)

\* what a call did to the model accessors: the models it tried to load, the
\* accessors it called, and the accessors that raised
NoAccess == [loads |-> {}, accessed |-> {}, denied |-> {}]

Access(name, loads, denied) ==
    [loads |-> IF loads THEN {name} ELSE {}, accessed |-> {name},
     denied |-> IF denied THEN {name} ELSE {}]

Join(a, b) ==
    [loads |-> a.loads \cup b.loads, accessed |-> a.accessed \cup b.accessed,
     denied |-> a.denied \cup b.denied]

\* services.embedding._get_model(): [raised, model, access]; a load that
\* raises leaves _model None
GetModel(em, env) ==
    IF em = "loaded"
    THEN [raised |-> FALSE, model |-> em,
          access |-> Access("embedding", FALSE, FALSE)]
    ELSE IF env.modelLoadOk
    THEN [raised |-> FALSE, model |-> "loaded",
          access |-> Access("embedding", TRUE, FALSE)]
    ELSE [raised |-> TRUE, model |-> em,
          access |-> Access("embedding", TRUE, TRUE)]

\* model.encode(...) after _get_model() answered g
Encoded(g, env) ==
    [raised |-> g.raised \/ ~env.embedOk, model |-> g.model, access |-> g.access]

\* services.embedding.embed_query(query): [raised, model, access]
EmbedQuery(em, env) == Encoded(GetModel(em, env), env)

\* get_reranker() tries to load the model
LoadsReranker(rr, le) == ~le /\ rr = "none"

\* what the get_reranker() call of the pipeline did
RerankerAccess(rr, le, env) ==
    Access("reranker", LoadsReranker(rr, le), GetReranker(rr, le, env).raised)

\* embedding_service.get_embedder(): [raised, embedder, loadError, access]
GetEmbedder(eb, ele, env) ==
    IF ele
    THEN [raised |-> TRUE, embedder |-> eb, loadError |-> ele,
          access |-> Access("embedder", FALSE, TRUE)]
    ELSE IF eb = "loaded"
    THEN [raised |-> FALSE, embedder |-> eb, loadError |-> ele,
          access |-> Access("embedder", FALSE, FALSE)]
    ELSE IF env.modelLoadOk
    THEN [raised |-> FALSE, embedder |-> "loaded", loadError |-> ele,
          access |-> Access("embedder", TRUE, FALSE)]
    ELSE [raised |-> TRUE, embedder |-> eb, loadError |-> TRUE,
          access |-> Access("embedder", TRUE, TRUE)]

\* embedding_service.release_embedder(): [raised, embedder]; it raises when
\* model.to does, before _embedder is cleared
ReleaseEmbedder(eb, env) ==
    IF eb = "none" THEN [raised |-> FALSE, embedder |-> eb]
    ELSE IF env.unloadOk THEN [raised |-> FALSE, embedder |-> "none"]
    ELSE [raised |-> TRUE, embedder |-> eb]

NoSearch(idx, cl, em, rr, le, acc) ==
    [raised |-> TRUE, result |-> <<>>, index |-> idx, client |-> cl,
     model |-> em, access |-> acc,
     reranker |-> rr, loadError |-> le, annLimit |-> <<>>, ann |-> <<>>,
     reranked |-> FALSE, rerankRaised |-> FALSE, writeRaised |-> FALSE]

\* the wide net cast whether or not reranking was asked for
AnnLimitWide(limit, rerank) == RERANK_CANDIDATES

\* ann_limit = RERANK_CANDIDATES if rerank else limit
AnnLimit(limit, rerank) == IF rerank THEN RERANK_CANDIDATES ELSE limit

\* search, lines 213-218: r is what rerank_and_write_salience did; when it
\* raised, the except branch returns the caller's candidates[:limit]
Reranked(r, cl, em, acc, candidates, ann_limit, limit) ==
    [raised |-> FALSE,
     result |-> IF r.raised THEN Take(r.candidates, limit) ELSE r.result,
     index |-> r.index, client |-> cl, model |-> em, access |-> acc,
     reranker |-> r.reranker, loadError |-> r.loadError,
     annLimit |-> <<ann_limit>>, ann |-> candidates,
     reranked |-> r.reranked, rerankRaised |-> r.rerankRaised,
     writeRaised |-> r.writeRaised]

\* the pipeline entered for every non-empty candidate list
RerankAlways(rerank, candidates) == candidates # <<>>

\* if rerank and candidates:
RerankWanted(rerank, candidates) == rerank /\ candidates # <<>>

\* search from line 194 on, the client being cl and embed_query having
\* answered e
SearchWith(idx, cl, e, rr, le, now, q, c, limit, rerank, env) ==
    LET ann_limit == AnnLimit(limit, rerank)
    IN IF ~env.annOk \/ c \notin DOMAIN idx
       THEN [NoSearch(idx, cl, e.model, rr, le, e.access)
                EXCEPT !.annLimit = <<ann_limit>>]
       ELSE
       LET candidates == QueryPoints(idx, c, q, ann_limit, env.tieRev)
       IN IF RerankWanted(rerank, candidates)
          THEN Reranked(RerankAndWriteSalience(idx, cl, rr, le, now,
                                               q, c, candidates, limit, env,
                                               RerankOf(idx, c, q, candidates,
                                                        env.tieRev)),
                        cl, e.model,
                        Join(e.access, RerankerAccess(rr, le, env)),
                        candidates, ann_limit, limit)
          ELSE [raised |-> FALSE, result |-> Take(candidates, limit),
                index |-> idx, client |-> cl,
                model |-> e.model, access |-> e.access,
                reranker |-> rr, loadError |-> le,
                annLimit |-> <<ann_limit>>, ann |-> candidates,
                reranked |-> FALSE, rerankRaised |-> FALSE,
                writeRaised |-> FALSE]

\* search answering an embedding failure with an empty list
SearchFromQuiet(g, e, idx, rr, le, now, q, c, limit, rerank, env) ==
    IF e.raised
    THEN [NoSearch(idx, g.client, e.model, rr, le, e.access)
             EXCEPT !.raised = FALSE]
    ELSE SearchWith(idx, g.client, e, rr, le, now, q, c, limit, rerank, env)

\* search once _get_client() answered g and embed_query e
SearchFrom(g, e, idx, rr, le, now, q, c, limit, rerank, env) ==
    IF e.raised THEN NoSearch(idx, g.client, e.model, rr, le, e.access)
    ELSE SearchWith(idx, g.client, e, rr, le, now, q, c, limit, rerank, env)

\* search(query, collection, limit, rerank):
\* [raised, result, index, client, model, access, reranker, loadError,
\*  annLimit (the limit asked of query_points), ann (the ANN candidates),
\*  reranked (the pipeline returned a reranked list), rerankRaised]
SearchCall(idx, cl, em, rr, le, now, q, c, limit, rerank, env) ==
    IF GetClient(cl, env).raised
    THEN NoSearch(idx, GetClient(cl, env).client, em, rr, le, NoAccess)
    ELSE SearchFrom(GetClient(cl, env), EmbedQuery(em, env),
                    idx, rr, le, now, q, c, limit, rerank, env)

\* for d in docs: d["source_collection"] = tag
Tagged(results, tag) ==
    [i \in 1..Len(results) |-> [results[i] EXCEPT !.source_collection = <<tag>>]]

\* the merge of search_all: docs + msgs, sorted by the key, cut to limit
Merge(docs, msgs, limit, rerank) ==
    LET combined == Tagged(docs, "documents") \o Tagged(msgs, "messages")
        sort_key == IF rerank THEN "rerank_score" ELSE "score"
    IN Take(SortDesc(combined, sort_key), limit)

\* search_all(query, limit, rerank): [raised, result, docs, msgs, index, ...]
Merged(d, m, limit, rerank) ==
    [raised |-> m.raised,
     result |-> IF m.raised THEN <<>>
                ELSE Merge(d.result, m.result, limit, rerank),
     docs |-> d, msgs |-> m,
     index |-> m.index, client |-> m.client, model |-> m.model,
     access |-> Join(d.access, m.access), reranker |-> m.reranker,
     loadError |-> m.loadError]

\* the second half of search_all, d being what the documents search returned
SearchMessages(d, now, q, limit, rerank, envM) ==
    IF d.raised
    THEN [raised |-> TRUE, result |-> <<>>, docs |-> d, msgs |-> d,
          index |-> d.index, client |-> d.client, model |-> d.model,
          access |-> d.access, reranker |-> d.reranker,
          loadError |-> d.loadError]
    ELSE Merged(d, SearchCall(d.index, d.client, d.model, d.reranker,
                              d.loadError, now + 1, q, COLLECTION_MESSAGES,
                              limit, rerank, envM),
                limit, rerank)

SearchAllCall(idx, cl, em, rr, le, now, q, limit, rerank, envD, envM) ==
    SearchMessages(SearchCall(idx, cl, em, rr, le, now, q, COLLECTION_DOCUMENTS,
                              limit, rerank, envD),
                   now, q, limit, rerank, envM)

\* ------------------------------------------------------------------ upsert
\* PointStruct(id=id, vector=vector, payload={"text": text, **metadata})
PointStruct(id, vector, text, meta) ==
    [id |-> id, point |-> Point(vector, text, meta)]

\* a write that leaves a point already stored under the id as it is
PutIfAbsent(pts, ps) ==
    [p \in DOMAIN pts \cup {ps.id} |->
        IF p \in DOMAIN pts THEN pts[p] ELSE ps.point]

\* Qdrant storing one point of an upsert: a point of the same id is replaced,
\* vector and payload
Put(pts, ps) ==
    [p \in DOMAIN pts \cup {ps.id} |-> IF p = ps.id THEN ps.point ELSE pts[p]]

RECURSIVE PutAll(_, _)
PutAll(pts, points) ==
    IF points = <<>> THEN pts
    ELSE PutAll(Put(pts, Head(points)), Tail(points))

\* client.upsert(collection_name=c, points=points): [raised, index]; when the
\* call raises (fails) the points were stored or not (lands)
ClientUpsert(idx, c, points, fails, lands) ==
    IF c \notin DOMAIN idx THEN [raised |-> TRUE, index |-> idx]
    ELSE [raised |-> fails,
          index |-> IF fails /\ ~lands THEN idx
                    ELSE [idx EXCEPT ![c] = PutAll(@, points)]]

\* services.embedding.embed_passages(texts): [raised, model, access, vectors]
EmbedPassages(em, texts, fails, env) ==
    [raised |-> GetModel(em, env).raised \/ fails,
     model |-> GetModel(em, env).model,
     access |-> GetModel(em, env).access,
     vectors |-> [i \in 1..Len(texts) |-> EmbedPassage(texts[i])]]

\* what an upsert call did: [raised, index, client, model, access, points
\* (the points handed to client.upsert)]
Upsert(raised, idx, cl, em, acc, points) ==
    [raised |-> raised, index |-> idx, client |-> cl, model |-> em,
     access |-> acc, points |-> points]

\* upsert_batch(collection, points)
UpsertBatch(idx, cl, em, c, points, env) ==
    IF GetClient(cl, env).raised
    THEN Upsert(TRUE, idx, cl, em, NoAccess, <<>>)
    ELSE LET u == ClientUpsert(idx, c, points, 0 \in env.upsertFail,
                               env.upsertLands)
         IN Upsert(u.raised, u.index, "connected", em, NoAccess, points)

\* the body shared by upsert_document and upsert_message once the client is
\* there and embed_passages([text]) answered e
UpsertEmbedded(idx, e, c, id, text, meta, env) ==
    IF e.raised THEN Upsert(TRUE, idx, "connected", e.model, e.access, <<>>)
    ELSE LET points == <<PointStruct(id, e.vectors[1], text, meta)>>
             u == ClientUpsert(idx, c, points, 0 \in env.upsertFail,
                               env.upsertLands)
         IN Upsert(u.raised, u.index, "connected", e.model, e.access, points)

UpsertOne(idx, cl, em, c, id, text, meta, env) ==
    IF GetClient(cl, env).raised
    THEN Upsert(TRUE, idx, cl, em, NoAccess, <<>>)
    ELSE UpsertEmbedded(idx, EmbedPassages(em, <<text>>, 0 \in env.embedFail,
                                           env),
                        c, id, text, meta, env)

\* upsert_document(doc_id, text, metadata)
UpsertDocument(idx, cl, em, doc_id, text, metadata, env) ==
    UpsertOne(idx, cl, em, COLLECTION_DOCUMENTS, doc_id, text, metadata, env)

\* upsert_message(message_id, text, metadata)
UpsertMessage(idx, cl, em, message_id, text, metadata, env) ==
    UpsertOne(idx, cl, em, COLLECTION_MESSAGES, message_id, text, metadata, env)

\* ----------------------------------------------------------- bulk embedding
\* A source row is [id, text, meta]: text is content (documents), description
\* (domains) or the pair of user_prompt and model_response (messages); meta
\* stands for the other columns.  A column that is NULL is <<>>.
DocumentRow(id, content, meta) == [id |-> id, text |-> content, meta |-> meta]

\* a message row: the lengths of user_prompt and model_response, and trail,
\* the number of whitespace characters model_response ends with
MessageRow(id, body, prompt, response, trail, meta) ==
    [id |-> id,
     text |-> [body |-> body, prompt |-> prompt, response |-> response,
               trail |-> trail],
     meta |-> meta]

\* f"Q: {row['user_prompt']}\nA: {row['model_response']}"
Combined(m) == Text(m.body, 7 + m.prompt + m.response)

\* len(text.strip()): the text starts with Q; an empty or blank
\* model_response leaves the space after "A:" at the end as well
StrippedLen(m) ==
    7 + m.prompt + m.response
      - (IF m.trail = m.response THEN m.trail + 1 ELSE m.trail)

\* text[:MAX_TEXT_CHARS]
Truncated(text) == Text(text.body, Min(text.len, MAX_TEXT_CHARS))

\* the WHERE clause of the job's SELECT
Selects(job, row) ==
    IF job = "messages" THEN row.text.prompt > 0 \/ row.text.response > 0
    ELSE row.text # <<>> /\ row.text[1].len > MIN_CONTENT_CHARS

\* cursor.fetchall(): the rows of the table the SELECT returns, in order
Selected(job, table) == SelectSeq(table, LAMBDA row : Selects(job, row))

\* the row is skipped before point_exists is asked: a message whose combined
\* text, stripped, is shorter than 20 characters
TooShort(job, row) ==
    job = "messages" /\ StrippedLen(row.text) < MIN_MESSAGE_CHARS

\* the text handed to embed_passages for the row
EmbedText(job, row) ==
    IF job = "messages" THEN Truncated(Combined(row.text))
    ELSE IF job = "documents" THEN Truncated(row.text[1])
    ELSE row.text[1]

\* payload["text"] of the row's point
PayloadText(job, row) ==
    IF job = "messages" THEN Truncated(Combined(row.text)) ELSE row.text[1]

\* the collection the job writes
TargetOf(job) ==
    IF job = "messages" THEN COLLECTION_MESSAGES ELSE COLLECTION_DOCUMENTS

\* point_exists(collection, point_id): False when client.retrieve raises
PointExists(idx, c, p, env) ==
    ~RetrieveRaises(idx, c, p, env) /\ p \in DOMAIN idx[c]

\* the state of a running job: the counters and errors of the code; tried and
\* stored are the ids handed to embed_passages and to upsert_batch, handed the
\* texts embed_passages was given, failedAt the offsets of the batches in
\* which one of them raised
NewJob(idx, em) ==
    [raised |-> FALSE, finished |-> FALSE, index |-> idx, model |-> em,
     access |-> NoAccess, embedded |-> 0, skipped |-> 0, errors |-> <<>>,
     tried |-> {}, stored |-> {}, handed |-> {}, failedAt |-> <<>>]

\* the except branch left out: the exception of the batch ends the job
BatchFailureRaises(j, start) ==
    [j EXCEPT !.raised = TRUE, !.failedAt = Append(@, start)]

\* except Exception as e: errors.append(f"batch@{batch_start}: {str(e)}")
BatchFailure(j, start) ==
    [j EXCEPT !.errors = Append(@, start), !.failedAt = Append(@, start)]

\* the try block of one batch, valid being its rows to embed and e what
\* embed_passages(texts) answered
BatchEmbedded(job, valid, start, j, e, env) ==
    LET ids == {valid[i].id : i \in 1..Len(valid)}
        tried == [j EXCEPT !.model = e.model,
                           !.access = Join(@, e.access),
                           !.tried = @ \cup ids,
                           !.handed = @ \cup {[id |-> valid[i].id,
                                                text |-> EmbedText(job, valid[i])] :
                                                  i \in 1..Len(valid)}]
        points == [i \in 1..Len(valid) |->
                      PointStruct(valid[i].id, e.vectors[i],
                                  PayloadText(job, valid[i]), valid[i].meta)]
        u == ClientUpsert(j.index, TargetOf(job), points,
                          start \in env.upsertFail, env.upsertLands)
    IN IF e.raised THEN BatchFailure(tried, start)
       ELSE IF u.raised
       THEN BatchFailure([tried EXCEPT !.index = u.index,
                                       !.stored = @ \cup ids], start)
       ELSE [tried EXCEPT !.index = u.index, !.stored = @ \cup ids,
                          !.embedded = @ + Len(points)]

\* one batch: the rows that are skipped, then the try block on the others
Batch(job, batch, start, j, env) ==
    LET valid ==
          SelectSeq(batch,
                    LAMBDA row :
                        /\ ~TooShort(job, row)
                        /\ ~PointExists(j.index, TargetOf(job), row.id, env))
        texts == [i \in 1..Len(valid) |-> EmbedText(job, valid[i])]
        counted == [j EXCEPT !.skipped = @ + Len(batch) - Len(valid)]
    IN IF valid = <<>> THEN counted
       ELSE BatchEmbedded(job, valid, start, counted,
                          EmbedPassages(j.model, texts,
                                        start \in env.embedFail, env),
                          env)

\* rows[batch_start:batch_start + BATCH_SIZE]
Slice(rows, start) ==
    SubSeq(rows, start + 1, Min(start + BATCH_SIZE, Len(rows)))

\* for batch_start in range(0, total, BATCH_SIZE); the process may be killed
\* before the batch numbered env.stopAfter[1] starts
RECURSIVE Batches(_, _, _, _, _)
Batches(job, rows, start, j, env) ==
    IF j.raised \/ env.stopAfter = <<start \div BATCH_SIZE>> THEN j
    ELSE IF start >= Len(rows) THEN [j EXCEPT !.finished = TRUE]
    ELSE Batches(job, rows, start + BATCH_SIZE,
                 Batch(job, Slice(rows, start), start, j, env), env)

\* embed_all_domains: every row in one batch
OneBatch(job, rows, j, env) ==
    IF env.stopAfter = <<0>> THEN j
    ELSE LET b == Batch(job, rows, 0, j, env)
         IN [b EXCEPT !.finished = ~b.raised]

\* embed_all_documents() / embed_all_messages() / embed_all_domains() over
\* the rows of table; ensure_collections() raises when Qdrant does not answer
BulkEmbed(job, idx, cl, em, table, env) ==
    IF GetClient(cl, env).raised THEN [NewJob(idx, em) EXCEPT !.raised = TRUE]
    ELSE IF job = "domains"
    THEN OneBatch(job, Selected(job, table), NewJob(idx, em), env)
    ELSE Batches(job, Selected(job, table), 0, NewJob(idx, em), env)

\* ------------------------------------------------------------ usage signal
\* A text is a sequence of one-character strings.
LOWERCASE ==
    <<"a", "b", "c", "d", "e", "f", "g", "h", "i", "j", "k", "l", "m",
      "n", "o", "p", "q", "r", "s", "t", "u", "v", "w", "x", "y", "z">>

UPPERCASE ==
    <<"A", "B", "C", "D", "E", "F", "G", "H", "I", "J", "K", "L", "M",
      "N", "O", "P", "Q", "R", "S", "T", "U", "V", "W", "X", "Y", "Z">>

\* [a-z]
Letters == {LOWERCASE[i] : i \in DOMAIN LOWERCASE}

\* [a-z0-9_]
WordChars == Letters \cup {"0", "1", "2", "3", "4", "5", "6", "7", "8", "9", "_"}

\* text.lower()
Lower(text) ==
    [i \in 1..Len(text) |->
        IF \E k \in DOMAIN UPPERCASE : UPPERCASE[k] = text[i]
        THEN LOWERCASE[CHOOSE k \in DOMAIN UPPERCASE : UPPERCASE[k] = text[i]]
        ELSE text[i]]

\* the last index of the run of [a-z0-9_] that holds index j
RECURSIVE RunEnd(_, _)
RunEnd(t, j) ==
    IF j < Len(t) /\ t[j + 1] \in WordChars THEN RunEnd(t, j + 1) ELSE j

\* a match of [a-z][a-z0-9_]+ starts at index k
StartsWord(t, k) == t[k] \in Letters /\ k < Len(t) /\ t[k + 1] \in WordChars

\* re.findall(r"[a-z][a-z0-9_]+", t) scanning from index i: the scan moves to
\* the first index where a match starts, takes the whole run, and goes on
\* after it
RECURSIVE FindAll(_, _)
FindAllFrom(t, k, end) == <<SubSeq(t, k, end)>> \o FindAll(t, end + 1)

\* the match that starts at k, and the matches after it
FindAllAt(t, k) == FindAllFrom(t, k, RunEnd(t, k + 1))

FindAll(t, i) ==
    IF \E k \in i..Len(t) : StartsWord(t, k)
    THEN FindAllAt(t, CHOOSE k \in i..Len(t) :
                          /\ StartsWord(t, k)
                          /\ \A m \in i..(k - 1) : ~StartsWord(t, m))
    ELSE <<>>

\* _STOPWORDS
STOPWORDS ==
    {<<"t", "h", "e">>, <<"a">>, <<"a", "n">>, <<"i", "s">>,
     <<"a", "r", "e">>, <<"w", "a", "s">>, <<"w", "e", "r", "e">>,
     <<"b", "e">>, <<"b", "e", "e", "n">>, <<"b", "e", "i", "n", "g">>,
     <<"h", "a", "v", "e">>, <<"h", "a", "s">>, <<"h", "a", "d">>,
     <<"d", "o">>, <<"d", "o", "e", "s">>, <<"d", "i", "d">>,
     <<"w", "i", "l", "l">>, <<"w", "o", "u", "l", "d">>,
     <<"c", "o", "u", "l", "d">>, <<"s", "h", "o", "u", "l", "d">>,
     <<"m", "a", "y">>, <<"m", "i", "g", "h", "t">>,
     <<"s", "h", "a", "l", "l">>, <<"c", "a", "n">>, <<"n", "e", "e", "d">>,
     <<"d", "a", "r", "e">>, <<"o", "u", "g", "h", "t">>,
     <<"u", "s", "e", "d">>, <<"t", "o">>, <<"o", "f">>, <<"i", "n">>,
     <<"f", "o", "r">>, <<"o", "n">>, <<"w", "i", "t", "h">>, <<"a", "t">>,
     <<"b", "y">>, <<"f", "r", "o", "m">>, <<"a", "s">>,
     <<"i", "n", "t", "o">>, <<"t", "h", "r", "o", "u", "g", "h">>,
     <<"d", "u", "r", "i", "n", "g">>, <<"b", "e", "f", "o", "r", "e">>,
     <<"a", "f", "t", "e", "r">>, <<"a", "b", "o", "v", "e">>,
     <<"b", "e", "l", "o", "w">>, <<"b", "e", "t", "w", "e", "e", "n">>,
     <<"o", "u", "t">>, <<"o", "f", "f">>, <<"o", "v", "e", "r">>,
     <<"u", "n", "d", "e", "r">>, <<"a", "g", "a", "i", "n">>,
     <<"f", "u", "r", "t", "h", "e", "r">>, <<"t", "h", "e", "n">>,
     <<"o", "n", "c", "e">>, <<"h", "e", "r", "e">>,
     <<"t", "h", "e", "r", "e">>, <<"w", "h", "e", "n">>,
     <<"w", "h", "e", "r", "e">>, <<"w", "h", "y">>, <<"h", "o", "w">>,
     <<"a", "l", "l">>, <<"e", "a", "c", "h">>, <<"e", "v", "e", "r", "y">>,
     <<"b", "o", "t", "h">>, <<"f", "e", "w">>, <<"m", "o", "r", "e">>,
     <<"m", "o", "s", "t">>, <<"o", "t", "h", "e", "r">>,
     <<"s", "o", "m", "e">>, <<"s", "u", "c", "h">>, <<"n", "o">>,
     <<"n", "o", "r">>, <<"n", "o", "t">>, <<"o", "n", "l", "y">>,
     <<"o", "w", "n">>, <<"s", "a", "m", "e">>, <<"s", "o">>,
     <<"t", "h", "a", "n">>, <<"t", "o", "o">>, <<"v", "e", "r", "y">>,
     <<"j", "u", "s", "t">>, <<"b", "e", "c", "a", "u", "s", "e">>,
     <<"b", "u", "t">>, <<"a", "n", "d">>, <<"o", "r">>, <<"i", "f">>,
     <<"w", "h", "i", "l", "e">>, <<"t", "h", "a", "t">>,
     <<"t", "h", "i", "s">>, <<"t", "h", "e", "s", "e">>,
     <<"t", "h", "o", "s", "e">>, <<"i", "t">>, <<"i", "t", "s">>, <<"i">>,
     <<"m", "e">>, <<"m", "y">>, <<"w", "e">>, <<"o", "u", "r">>,
     <<"y", "o", "u">>, <<"y", "o", "u", "r">>, <<"h", "e">>,
     <<"h", "i", "m">>, <<"h", "i", "s">>, <<"s", "h", "e">>,
     <<"h", "e", "r">>, <<"t", "h", "e", "y">>, <<"t", "h", "e", "m">>,
     <<"t", "h", "e", "i", "r">>, <<"w", "h", "a", "t">>,
     <<"w", "h", "i", "c", "h">>, <<"w", "h", "o">>, <<"w", "h", "o", "m">>,
     <<"w", "h", "o", "s", "e">>}

MIN_WORD_LEN == 3
HIT_TOP_N == 15
RESPONSE_TOP_N == 50

\* len(w) >= _MIN_WORD_LEN and w not in _STOPWORDS
IsKeyword(w) == Len(w) >= MIN_WORD_LEN /\ w \notin STOPWORDS

\* the indexes at which a word of the list occurs for the first time
FirstOccurrences(filtered) ==
    {i \in DOMAIN filtered : \A j \in 1..(i - 1) : filtered[j] # filtered[i]}

\* the k-th smallest element of a set of indexes
Nth(S, k) == CHOOSE i \in S : Cardinality({j \in S : j < i}) = k - 1

\* the Counter entry of the word first met at index i
CountOf(filtered, i) ==
    [word |-> filtered[i],
     count |-> Cardinality({j \in DOMAIN filtered : filtered[j] = filtered[i]})]

\* the entries of Counter(filtered), first, being FirstOccurrences(filtered)
CounterOver(filtered, first) ==
    [k \in 1..Cardinality(first) |-> CountOf(filtered, Nth(first, k))]

\* Counter(filtered): [word, count] per distinct word, in the order the words
\* were first met (a dict keeps insertion order)
Counter(filtered) == CounterOver(filtered, FirstOccurrences(filtered))

\* entry j comes before entry k in most_common(): a higher count, or the same
\* count and met earlier (sorted(..., reverse=True) is stable)
Before(counts, j, k) ==
    \/ counts[j].count > counts[k].count
    \/ counts[j].count = counts[k].count /\ j < k

\* the index in counts of the entry at place n of most_common()
Placed(counts, n) ==
    CHOOSE k \in DOMAIN counts :
        Cardinality({j \in DOMAIN counts : Before(counts, j, k)}) = n - 1

\* counts.most_common(n)
MostCommon(counts, n) ==
    [p \in 1..Min(n, Len(counts)) |-> counts[Placed(counts, p)]]

\* the set comprehension of _extract_keywords over most_common(top_n)
WordsOf(common) == {common[k].word : k \in DOMAIN common}

\* _extract_keywords(text, top_n)
ExtractKeywords(text, top_n) ==
    WordsOf(MostCommon(Counter(SelectSeq(FindAll(Lower(text), 1), IsKeyword)),
                       top_n))

\* round(n / d, 3) in thousandths, d > 0 (no n / d with d <= 15 is a tie)
Round3(n, d) == (2 * ONE * n + d) \div (2 * d)

\* the overlap measured against the response's keywords
OverlapOfResponse(hit_keywords, response_keywords) ==
    Round3(Cardinality(hit_keywords \cap response_keywords),
           Max(Cardinality(response_keywords), 1))

\* round(min(1.0, len(overlap) / max(len(hit_keywords), 1)), 3)
OverlapScore(hit_keywords, response_keywords) ==
    Min(ONE, Round3(Cardinality(hit_keywords \cap response_keywords),
                    Max(Cardinality(hit_keywords), 1)))

\* {**hit, "usage_score": s}
WithUsage(hit, s) ==
    [k \in DOMAIN hit \cup {"usage_score"} |->
        IF k = "usage_score" THEN s ELSE hit[k]]

\* the body of the loop of compute_usage_signal, kw being hit_keywords
ScoredHit(hit, kw, response_keywords) ==
    IF kw = {} THEN WithUsage(hit, 0)
    ELSE WithUsage(hit, OverlapScore(kw, response_keywords))

\* one iteration of the loop: hit.get("title", "") is "" for an absent title
UsageOfHit(hit, response_keywords) ==
    IF hit.title = <<>> \/ hit.title[1] = <<>> THEN WithUsage(hit, 0)
    ELSE ScoredHit(hit, ExtractKeywords(hit.title[1], HIT_TOP_N),
                   response_keywords)

\* the loop of compute_usage_signal
UsageOfHits(rag_scores, response_keywords) ==
    IF response_keywords = {} THEN <<>>
    ELSE [i \in 1..Len(rag_scores) |-> UsageOfHit(rag_scores[i], response_keywords)]

\* compute_usage_signal(rag_scores, model_response)
ComputeUsageSignal(rag_scores, model_response) ==
    IF rag_scores = <<>> \/ model_response = <<>> THEN <<>>
    ELSE UsageOfHits(rag_scores, ExtractKeywords(model_response, RESPONSE_TOP_N))


\* ------------------------------------------------------ inputs of the calls
\* what the collaborators do during one call: every backend answers, or one
\* of them raises
OkEnv ==
    [connectOk |-> TRUE, modelLoadOk |-> TRUE, embedOk |-> TRUE,
     annOk |-> TRUE, tieRev |-> FALSE,
     loadOk |-> TRUE, inferOk |-> TRUE, unloadOk |-> TRUE,
     retrFail |-> {}, setFail |-> {},
     embedFail |-> {}, upsertFail |-> {}, upsertLands |-> FALSE,
     stopAfter |-> <<>>]

FailSets == {{1}, 1..NumDocs}

RerankerEnvs ==
    {[OkEnv EXCEPT !.loadOk = l, !.inferOk = i, !.unloadOk = u] :
        l \in BOOLEAN, i \in BOOLEAN, u \in BOOLEAN}

WriteEnvs ==
    {OkEnv, [OkEnv EXCEPT !.connectOk = FALSE]}
    \cup {[OkEnv EXCEPT !.retrFail = S] : S \in FailSets}
    \cup {[OkEnv EXCEPT !.setFail = S] : S \in FailSets}

\* rerank = FALSE never reaches the reranker or the write-back
AnnEnvs ==
    {OkEnv, [OkEnv EXCEPT !.connectOk = FALSE],
     [OkEnv EXCEPT !.modelLoadOk = FALSE],
     [OkEnv EXCEPT !.embedOk = FALSE], [OkEnv EXCEPT !.annOk = FALSE],
     [OkEnv EXCEPT !.tieRev = TRUE]}

SearchEnvs(rerank) ==
    IF rerank THEN AnnEnvs \cup RerankerEnvs \cup WriteEnvs ELSE AnnEnvs

SearchAllEnvs ==
    {OkEnv, [OkEnv EXCEPT !.loadOk = FALSE], [OkEnv EXCEPT !.inferOk = FALSE],
     [OkEnv EXCEPT !.unloadOk = FALSE], [OkEnv EXCEPT !.annOk = FALSE]}

\* collection arguments of the feedback calls: the Qdrant names, and the tag
\* search_all puts in source_collection
FeedbackCollections == Collections \cup {"documents"}

RerankScores == {-12000, -2000, 100, 1000, 10000}
UsageScores == {0, 100, 200, 300, 500, 1000}

RerankResults ==
    {<<[id |-> 1, rerank_score |-> <<r>>]>> : r \in RerankScores}
    \cup {<<[id |-> 0, rerank_score |-> <<1000>>]>>,
          <<[id |-> 0, rerank_score |-> <<1000>>],
            [id |-> 2, rerank_score |-> <<1000>>]>>,
          <<[id |-> 1, rerank_score |-> <<>>]>>,
          <<[id |-> 1, rerank_score |-> <<1000>>],
            [id |-> 2, rerank_score |-> <<1000>>]>>}

UsageResults ==
    {<<[id |-> 1, usage_score |-> u]>> : u \in UsageScores}
    \cup {<<[id |-> 0, usage_score |-> 1000]>>,
          <<[id |-> 0, usage_score |-> 1000],
            [id |-> 2, usage_score |-> 1000]>>,
          <<[id |-> 1, usage_score |-> 1000],
            [id |-> 2, usage_score |-> 0]>>,
          <<[id |-> 1, usage_score |-> 300],
            [id |-> 2, usage_score |-> 1000]>>}

\* ----------------------------------------------- inputs of the usage signal
\* "apple pie recipe"
TitleApplePie ==
    <<"a", "p", "p", "l", "e", " ", "p", "i", "e", " ", "r", "e", "c", "i",
      "p", "e">>

\* "Apple PIE Recipe!"
TitleUpper ==
    <<"A", "p", "p", "l", "e", " ", "P", "I", "E", " ", "R", "e", "c", "i",
      "p", "e", "!">>

\* "the of it"
TitleStopwords ==
    <<"t", "h", "e", " ", "o", "f", " ", "i", "t">>

\* "apple_pie 2pie x1"
TitleUnderscore ==
    <<"a", "p", "p", "l", "e", "_", "p", "i", "e", " ", "2", "p", "i", "e",
      " ", "x", "1">>

\* "kwa kwb ... kwp: 16 keywords, one more than a title keeps"
TitleMany ==
    <<"k", "w", "a", " ", "k", "w", "b", " ", "k", "w", "c", " ", "k", "w",
      "d", " ", "k", "w", "e", " ", "k", "w", "f", " ", "k", "w", "g", " ",
      "k", "w", "h", " ", "k", "w", "i", " ", "k", "w", "j", " ", "k", "w",
      "k", " ", "k", "w", "l", " ", "k", "w", "m", " ", "k", "w", "n", " ",
      "k", "w", "o", " ", "k", "w", "p">>

\* "kwa kwb ... kwp kwp: the 16th keyword is the most frequent"
TitleManyRepeat ==
    <<"k", "w", "a", " ", "k", "w", "b", " ", "k", "w", "c", " ", "k", "w",
      "d", " ", "k", "w", "e", " ", "k", "w", "f", " ", "k", "w", "g", " ",
      "k", "w", "h", " ", "k", "w", "i", " ", "k", "w", "j", " ", "k", "w",
      "k", " ", "k", "w", "l", " ", "k", "w", "m", " ", "k", "w", "n", " ",
      "k", "w", "o", " ", "k", "w", "p", " ", "k", "w", "p">>

\* "kby"
TitleLast ==
    <<"k", "b", "y">>

\* "I love apple pie"
ResponseApplePie ==
    <<"I", " ", "l", "o", "v", "e", " ", "a", "p", "p", "l", "e", " ", "p",
      "i", "e">>

\* "I am"
ResponseNoKeywords ==
    <<"I", " ", "a", "m">>

\* "Use the RECIPE: apple_pie"
ResponseRecipe ==
    <<"U", "s", "e", " ", "t", "h", "e", " ", "R", "E", "C", "I", "P", "E",
      ":", " ", "a", "p", "p", "l", "e", "_", "p", "i", "e">>

\* "kwp"
ResponseLast ==
    <<"k", "w", "p">>

\* "kwo kwp"
ResponseTwoLast ==
    <<"k", "w", "o", " ", "k", "w", "p">>

\* "pie pie pie"
ResponsePies ==
    <<"p", "i", "e", " ", "p", "i", "e", " ", "p", "i", "e">>

\* "car engine repair"
ResponseCar ==
    <<"c", "a", "r", " ", "e", "n", "g", "i", "n", "e", " ", "r", "e", "p",
      "a", "i", "r">>

\* "kaa kab ... kaz kba ... kby: 51 keywords, one more than a response keeps"
ResponseMany ==
    <<"k", "a", "a", " ", "k", "a", "b", " ", "k", "a", "c", " ", "k", "a",
      "d", " ", "k", "a", "e", " ", "k", "a", "f", " ", "k", "a", "g", " ",
      "k", "a", "h", " ", "k", "a", "i", " ", "k", "a", "j", " ", "k", "a",
      "k", " ", "k", "a", "l", " ", "k", "a", "m", " ", "k", "a", "n", " ",
      "k", "a", "o", " ", "k", "a", "p", " ", "k", "a", "q", " ", "k", "a",
      "r", " ", "k", "a", "s", " ", "k", "a", "t", " ", "k", "a", "u", " ",
      "k", "a", "v", " ", "k", "a", "w", " ", "k", "a", "x", " ", "k", "a",
      "y", " ", "k", "a", "z", " ", "k", "b", "a", " ", "k", "b", "b", " ",
      "k", "b", "c", " ", "k", "b", "d", " ", "k", "b", "e", " ", "k", "b",
      "f", " ", "k", "b", "g", " ", "k", "b", "h", " ", "k", "b", "i", " ",
      "k", "b", "j", " ", "k", "b", "k", " ", "k", "b", "l", " ", "k", "b",
      "m", " ", "k", "b", "n", " ", "k", "b", "o", " ", "k", "b", "p", " ",
      "k", "b", "q", " ", "k", "b", "r", " ", "k", "b", "s", " ", "k", "b",
      "t", " ", "k", "b", "u", " ", "k", "b", "v", " ", "k", "b", "w", " ",
      "k", "b", "x", " ", "k", "b", "y">>

Titles ==
    {TitleApplePie, TitleUpper, TitleStopwords, TitleUnderscore, TitleMany,
     TitleManyRepeat, TitleLast, <<>>}

Responses ==
    {ResponseApplePie, ResponseNoKeywords, ResponseRecipe, ResponseLast,
     ResponseTwoLast, ResponsePies, ResponseCar, ResponseMany, TitleApplePie,
     <<>>}

\* a hit of the RAG metrics: title is <<>> when the dict has no "title" key
Hit(id, title) == [id |-> id, title |-> title]

HitLists ==
    {<<>>, <<Hit(1, <<>>)>>}
    \cup {<<Hit(1, <<t>>)>> : t \in Titles}
    \cup {<<Hit(1, <<TitleApplePie>>), Hit(2, <<>>)>>,
          <<Hit(1, <<TitleStopwords>>), Hit(2, <<TitleUpper>>),
            Hit(3, <<TitleUnderscore>>)>>}

\* compute_usage_signal on the sample hit lists and responses, computed once
UsageSignals ==
    [rag_scores \in HitLists, model_response \in Responses |->
        ComputeUsageSignal(rag_scores, model_response)]

\* candidate lists handed to rerank(): none, the nearest points of a query in
\* either order, a list that names one point twice, and one that an earlier
\* rerank and merge already scored and tagged
Reversed(s) == [i \in 1..Len(s) |-> s[Len(s) + 1 - i]]

Nearest3(c, q) == Take(AnnRanking[c, q, FALSE], 3)

RerankInputs(c) ==
    {<<>>}
    \cup {Take(Nearest3(c, q), n) : q \in Queries, n \in 1..3}
    \cup {Reversed(Nearest3(c, q)) : q \in Queries}
    \cup {Nearest3(c, q) \o Take(Nearest3(c, q), 1) : q \in Queries}
    \cup {Tagged(Rerank(q, c, Nearest3(c, q)), "documents") : q \in Queries}

InferEnvs == {OkEnv, [OkEnv EXCEPT !.inferOk = FALSE]}

LoadEnvs ==
    {OkEnv, [OkEnv EXCEPT !.loadOk = FALSE],
     [OkEnv EXCEPT !.modelLoadOk = FALSE], [OkEnv EXCEPT !.embedOk = FALSE],
     [OkEnv EXCEPT !.unloadOk = FALSE]}

\* what is upserted: a point of the sample corpus and a new one, a short and
\* a long text, two metadata dicts
UpsertIds(c) == {1, Cardinality(PointIds(c)) + 1}

UpsertTexts == {Text(1, 100), Text(2, 9000)}

Metadata == {0, 1}

\* pre-embedded batches: one point, two ids, and one id twice (the vector of
\* a point need not be the embedding of its payload text)
PointBatches(c) ==
    {<<PointStruct(id, EmbedPassage(t), t, m)>> :
        id \in UpsertIds(c), t \in UpsertTexts, m \in Metadata}
    \cup {<<PointStruct(1, EmbedPassage(Text(1, 100)), Text(2, 100), 1),
            PointStruct(Cardinality(PointIds(c)) + 1,
                        EmbedPassage(Text(2, 100)), Text(2, 100), 0)>>}
    \cup {<<PointStruct(1, EmbedPassage(Text(1, 100)), Text(1, 100), 0),
            PointStruct(1, EmbedPassage(Text(2, 100)), Text(2, 100), 1)>>}

UpsertEnvs ==
    {OkEnv, [OkEnv EXCEPT !.connectOk = FALSE],
     [OkEnv EXCEPT !.modelLoadOk = FALSE],
     [OkEnv EXCEPT !.embedFail = {0}], [OkEnv EXCEPT !.upsertFail = {0}],
     [OkEnv EXCEPT !.upsertFail = {0}, !.upsertLands = TRUE]}

\* the source tables: six rows that the SELECT returns, so two batches, with
\* one id the sample corpus holds, and rows the SELECT or the job leaves out
New(c, k) == Cardinality(PointIds(c)) + k

DocumentTable ==
    <<DocumentRow(New(COLLECTION_DOCUMENTS, 1), <<Text(31, 100)>>, 1),
      DocumentRow(1, <<Text(1, 100)>>, 0),
      DocumentRow(New(COLLECTION_DOCUMENTS, 2), <<>>, 1),
      DocumentRow(New(COLLECTION_DOCUMENTS, 3), <<Text(33, 9000)>>, 1),
      DocumentRow(New(COLLECTION_DOCUMENTS, 4), <<Text(34, 10)>>, 1),
      DocumentRow(New(COLLECTION_DOCUMENTS, 5), <<Text(35, 11)>>, 1),
      DocumentRow(New(COLLECTION_DOCUMENTS, 6), <<Text(36, 100)>>, 1),
      DocumentRow(New(COLLECTION_DOCUMENTS, 7), <<Text(37, 100)>>, 1)>>

MessageTable ==
    <<MessageRow(New(COLLECTION_MESSAGES, 1), 41, 50, 50, 0, 1),
      MessageRow(1, 1, 50, 50, 0, 0),
      MessageRow(New(COLLECTION_MESSAGES, 2), 42, 0, 0, 0, 1),
      MessageRow(New(COLLECTION_MESSAGES, 3), 43, 6, 6, 0, 1),
      MessageRow(New(COLLECTION_MESSAGES, 4), 44, 12, 0, 0, 1),
      MessageRow(New(COLLECTION_MESSAGES, 5), 45, 5000, 5000, 0, 1),
      MessageRow(New(COLLECTION_MESSAGES, 6), 46, 10, 20, 20, 1),
      MessageRow(New(COLLECTION_MESSAGES, 7), 47, 10, 20, 5, 1)>>

DomainTable ==
    <<DocumentRow(New(COLLECTION_DOCUMENTS, 11), <<Text(51, 100)>>, 1),
      DocumentRow(New(COLLECTION_DOCUMENTS, 12), <<Text(52, 9000)>>, 1),
      DocumentRow(New(COLLECTION_DOCUMENTS, 13), <<Text(53, 5)>>, 1),
      DocumentRow(New(COLLECTION_DOCUMENTS, 14), <<Text(54, 50)>>, 1),
      DocumentRow(New(COLLECTION_DOCUMENTS, 15), <<Text(55, 50)>>, 1),
      DocumentRow(New(COLLECTION_DOCUMENTS, 16), <<Text(56, 50)>>, 1)>>

TableOf(job) ==
    IF job = "documents" THEN DocumentTable
    ELSE IF job = "messages" THEN MessageTable
    ELSE DomainTable

Jobs == {"documents", "messages", "domains"}

\* what can go wrong during a run: Qdrant not answering at all, a retrieve
\* that raises, embed_passages or upsert_batch raising in the first or the
\* second batch, the model not loading, the process killed between batches
BulkEnvs ==
    {OkEnv, [OkEnv EXCEPT !.connectOk = FALSE],
     [OkEnv EXCEPT !.modelLoadOk = FALSE],
     [OkEnv EXCEPT !.retrFail = {1}],
     [OkEnv EXCEPT !.embedFail = {0}], [OkEnv EXCEPT !.embedFail = {BATCH_SIZE}],
     [OkEnv EXCEPT !.upsertFail = {0}],
     [OkEnv EXCEPT !.upsertFail = {0}, !.upsertLands = TRUE],
     [OkEnv EXCEPT !.upsertFail = {0, BATCH_SIZE}],
     [OkEnv EXCEPT !.stopAfter = <<0>>], [OkEnv EXCEPT !.stopAfter = <<1>>]}

\* --------------------------------------------------------------- chat turn
\* r.get("title", r.get("conv_title", "")): in the sample corpus every third
\* document is titled "apple pie recipe", the next one has another title and
\* the next none; the first message has a title
HitTitle(r) ==
    IF r.source_collection = <<"documents">>
    THEN IF r.id % 3 = 0 THEN TitleApplePie
         ELSE IF r.id % 3 = 1 THEN TitleUpper
         ELSE <<>>
    ELSE IF r.id = 1 THEN TitleLast
    ELSE <<>>

\* the filter of the loop of _build_rag_context: a hit with a rerank_score
\* goes into the context unless the score is below 0.3, a hit without one
\* when its ANN score is above the threshold
Included(r) ==
    IF r.rerank_score # <<>> THEN r.rerank_score[1] >= 300
    ELSE r.score > RAG_SCORE_THRESHOLD

\* r.get("source_collection", "unknown")
SourceOf(r) ==
    IF r.source_collection = <<>> THEN "unknown" ELSE r.source_collection[1]

\* the dict _build_rag_context appends to used_scores: source, title and
\* the scores, and no "id" key (id 0 is what result.get("id") finds then)
UsedScore(r) == [id |-> 0, title |-> <<HitTitle(r)>>, source |-> SourceOf(r)]

\* metrics["scores"] of _build_rag_context, results being the hits that
\* went into the context
UsedScores(results) == [i \in 1..Len(results) |-> UsedScore(results[i])]

\* {u.get("source", "") for u in usage if u.get("source")}, in a fixed order:
\* the calls for different collections do not touch each other's points
SourcesOf(usage) ==
    LET named == {usage[i].source : i \in 1..Len(usage)}
    IN  SelectSeq(<<"documents", "messages", "unknown", COLLECTION_DOCUMENTS,
                    COLLECTION_MESSAGES>>,
                  LAMBDA c : c \in named)

\* [u for u in usage if u.get("source") == collection]
ColHits(usage, collection) ==
    SelectSeq(usage, LAMBDA u : u.source = collection)

RECURSIVE WriteUsageBySource(_, _, _, _, _, _)
\* for collection in {...}: write_usage_salience(collection, col_hits):
\* [index, client, passed], passed being the arguments of the calls
WriteUsageBySource(idx, cl, usage, sources, now, env) ==
    IF sources = <<>> THEN [index |-> idx, client |-> cl, passed |-> <<>>]
    ELSE LET w == WriteUsageSalience(idx, cl, Head(sources),
                                     ColHits(usage, Head(sources)), now, env)
             rest == WriteUsageBySource(w.index, w.client, usage,
                                        Tail(sources), now, env)
         IN  [rest EXCEPT !.passed =
                <<[collection |-> Head(sources),
                   hits |-> ColHits(usage, Head(sources))]>> \o @]

\* the usage-signal block of _handle_send, scores being rag_metrics["scores"]
\* and usage what compute_usage_signal returned for them
UsageFeedback(idx, cl, usage, now, env) ==
    WriteUsageBySource(idx, cl, usage, SourcesOf(usage), now, env)

\* ----------------------------------------------------------- state machine
\* the sample corpus, indexed
SeedIndex == [c \in Collections |-> [p \in PointIds(c) |-> SeedPoint(c, p)]]

\* the collections as ensure_collections() creates them
EmptyIndex == [c \in Collections |-> [p \in {} |-> SeedPoint(c, p)]]

NoSub ==
    [raised |-> FALSE, result |-> <<>>, annLimit |-> <<>>, ann |-> <<>>,
     reranked |-> FALSE, rerankRaised |-> FALSE, writeRaised |-> FALSE]

Sub(r) ==
    [raised |-> r.raised, result |-> r.result, annLimit |-> r.annLimit,
     ann |-> r.ann, reranked |-> r.reranked, rerankRaised |-> r.rerankRaised,
     writeRaised |-> r.writeRaised]

NoCall ==
    [op |-> "none", q |-> 0, coll |-> "", limit |-> 0, rerank |-> FALSE,
     results |-> <<>>, response |-> <<>>, clean |-> FALSE, now |-> 0,
     raised |-> FALSE, result |-> <<>>,
     access |-> NoAccess, failedBefore |-> {},
     fault |-> "none", unwritable |-> {}, lookups |-> <<>>,
     used |-> <<>>, passed |-> <<>>,
     candidates |-> <<>>, invoked |-> FALSE,
     points |-> <<>>, table |-> <<>>, killed |-> FALSE, run |-> <<>>,
     call |-> NoSub, docs |-> NoSub, msgs |-> NoSub]

\* a caller that has not started its call
Idle ==
    [pc |-> "idle", op |-> "none", q |-> 0, coll |-> "", limit |-> 0,
     candidates |-> <<>>, held |-> 0, reranked |-> FALSE, todo |-> <<>>,
     current |-> 0, now |-> 0, applied |-> <<>>, result |-> <<>>]

Threads == 1..NumThreads

Init ==
    /\ threads = [t \in Threads |-> Idle]
    /\ generation = 0
    /\ index \in {SeedIndex, EmptyIndex}
    /\ client = "none"
    /\ reranker = "none"
    /\ loadError = FALSE
    /\ model = "none"
    /\ embedder = "none"
    /\ embedderLoadError = FALSE
    /\ failed = {}
    /\ clock = 0
    /\ calls = 0
    /\ last = NoCall
    /\ pre = index

\* the first step of a search that the collaborators make fail: getting the
\* client, embedding the query, or the ANN query
FaultOf(cl, em, env) ==
    IF cl # "connected" /\ ~env.connectOk THEN "client"
    ELSE IF (em = "none" /\ ~env.modelLoadOk) \/ ~env.embedOk THEN "embed"
    ELSE IF ~env.annOk THEN "ann"
    ELSE "none"

Search(q, c, limit, rerank, env) ==
    /\ calls < MaxSearches
    /\ \E r \in {SearchCall(index, client, model, reranker, loadError,
                           clock + 1, q, c, limit, rerank, env)} :
          /\ index' = r.index
          /\ client' = r.client
          /\ model' = r.model
          /\ reranker' = r.reranker
          /\ loadError' = r.loadError
          /\ failed' = failed \cup (r.access.loads \cap r.access.denied)
          /\ last' = [NoCall EXCEPT !.op = "search", !.q = q, !.coll = c,
                        !.limit = limit, !.rerank = rerank, !.now = clock + 1,
                        !.raised = r.raised, !.result = r.result,
                        !.access = r.access, !.failedBefore = failed,
                        !.fault = FaultOf(client, model, env),
                        !.unwritable = IF r.reranked
                                       THEN env.retrFail \cup env.setFail
                                       ELSE {},
                        !.call = Sub(r)]
    /\ clock' = clock + 1
    /\ calls' = calls + 1
    /\ pre' = index
    /\ UNCHANGED <<threads, generation>>
    /\ UNCHANGED <<embedder, embedderLoadError>>

SearchAll(q, limit, rerank, envD, envM) ==
    /\ calls < MaxSearches
    /\ \E r \in {SearchAllCall(index, client, model, reranker, loadError,
                              clock + 1, q, limit, rerank, envD, envM)} :
          /\ index' = r.index
          /\ client' = r.client
          /\ model' = r.model
          /\ reranker' = r.reranker
          /\ loadError' = r.loadError
          /\ failed' = failed \cup (r.access.loads \cap r.access.denied)
          /\ last' = [NoCall EXCEPT !.op = "search_all", !.q = q,
                        !.limit = limit, !.rerank = rerank, !.now = clock + 1,
                        !.raised = r.raised, !.result = r.result,
                        !.access = r.access, !.failedBefore = failed,
                        !.docs = Sub(r.docs), !.msgs = Sub(r.msgs)]
    /\ clock' = clock + 2
    /\ calls' = calls + 1
    /\ pre' = index
    /\ UNCHANGED <<threads, generation>>
    /\ UNCHANGED <<embedder, embedderLoadError>>

\* one chat turn: _build_rag_context searches all collections for the
\* message (max_chunks hits, reranked) and keeps the scores of the hits that
\* went into the context; the model answers model_response; _handle_send
\* scores the usage of the hits and writes the usage salience back
ChatTurn(q, max_chunks, model_response, envD, envM) ==
    /\ calls < MaxTurns
    /\ \E r \in {SearchAllCall(index, client, model, reranker, loadError,
                              clock + 1, q, max_chunks, TRUE, envD, envM)} :
       \E used \in {SelectSeq(r.result, Included)} :
       \E usage \in {ComputeUsageSignal(UsedScores(used), model_response)} :
       \E w \in {UsageFeedback(r.index, r.client, usage, clock + 3, OkEnv)} :
          /\ index' = w.index
          /\ client' = w.client
          /\ model' = r.model
          /\ reranker' = r.reranker
          /\ loadError' = r.loadError
          /\ failed' = failed \cup (r.access.loads \cap r.access.denied)
          /\ last' = [NoCall EXCEPT !.op = "chat_turn", !.q = q,
                        !.limit = max_chunks, !.rerank = TRUE,
                        !.now = clock + 3, !.response = model_response,
                        !.raised = r.raised, !.used = used,
                        !.result = usage, !.passed = w.passed]
    /\ clock' = clock + 3
    /\ calls' = calls + 1
    /\ pre' = index
    /\ UNCHANGED <<threads, generation>>
    /\ UNCHANGED <<embedder, embedderLoadError>>

\* the points of the call's results whose retrieve or set_payload fails in
\* a call that reached its loop on a collection of the index
Unwritable(cl, c, results, env) ==
    IF cl = "connected" /\ c \in Collections
    THEN (env.retrFail \cup env.setFail)
            \cap {results[i].id : i \in 1..Len(results)}
    ELSE {}

CallWriteSalience(c, results, env) ==
    /\ calls < MaxWrites
    /\ \E w \in {WriteSalience(index, client, c, results, clock + 1, env)} :
          /\ index' = w.index
          /\ client' = w.client
          /\ last' = [NoCall EXCEPT !.op = "write_salience", !.coll = c,
                        !.results = results, !.clean = (env = OkEnv),
                        !.now = clock + 1,
                        !.raised = w.raised,
                        !.lookups = Lookups(GetClient(client, env), results),
                        !.unwritable =
                            Unwritable(w.client, c, results, env)]
    /\ clock' = clock + 1
    /\ calls' = calls + 1
    /\ pre' = index
    /\ UNCHANGED <<threads, generation>>
    /\ UNCHANGED <<reranker, loadError, model, embedder, embedderLoadError,
                   failed>>

CallWriteUsageSalience(c, results, env) ==
    /\ calls < MaxWrites
    /\ \E w \in {WriteUsageSalience(index, client, c, results, clock + 1, env)} :
          /\ index' = w.index
          /\ client' = w.client
          /\ last' = [NoCall EXCEPT !.op = "write_usage_salience", !.coll = c,
                        !.results = results, !.clean = (env = OkEnv),
                        !.now = clock + 1,
                        !.raised = w.raised,
                        !.lookups = Lookups(GetClient(client, env), results),
                        !.unwritable =
                            Unwritable(w.client, c, results, env)]
    /\ clock' = clock + 1
    /\ calls' = calls + 1
    /\ pre' = index
    /\ UNCHANGED <<threads, generation>>
    /\ UNCHANGED <<reranker, loadError, model, embedder, embedderLoadError,
                   failed>>

CallComputeUsageSignal(rag_scores, model_response) ==
    /\ calls < MaxComputes
    /\ last' = [NoCall EXCEPT !.op = "compute_usage_signal",
                  !.results = rag_scores, !.response = model_response,
                  !.result =
                      IF rag_scores \in HitLists /\ model_response \in Responses
                      THEN UsageSignals[rag_scores, model_response]
                      ELSE ComputeUsageSignal(rag_scores, model_response)]
    /\ calls' = calls + 1
    /\ pre' = index
    /\ UNCHANGED <<threads, generation>>
    /\ UNCHANGED <<index, client, reranker, loadError, model, embedder,
                   embedderLoadError, failed, clock>>

\* reranker.rerank(query, candidates) on the reranker get_reranker() returned
CallRerank(q, c, candidates, env) ==
    /\ calls < MaxReranks
    /\ reranker = "loaded"
    /\ \E r \in {RerankCall(q, c, candidates, env)} :
          last' = [NoCall EXCEPT !.op = "rerank", !.q = q, !.coll = c,
                     !.candidates = candidates, !.raised = r.raised,
                     !.result = r.result, !.invoked = r.invoked]
    /\ calls' = calls + 1
    /\ pre' = index
    /\ UNCHANGED <<threads, generation>>
    /\ UNCHANGED <<index, client, reranker, loadError, model, embedder,
                   embedderLoadError, failed, clock>>

\* what a call of an accessor leaves in last and failed
Accessed(op, r, acc) ==
    /\ last' = [NoCall EXCEPT !.op = op, !.raised = r.raised, !.access = acc,
                  !.failedBefore = failed]
    /\ failed' = failed \cup (acc.loads \cap acc.denied)
    /\ calls' = calls + 1
    /\ pre' = index
    /\ UNCHANGED <<threads, generation>>

CallGetReranker(env) ==
    /\ calls < MaxAccesses
    /\ \E r \in {GetReranker(reranker, loadError, env)} :
          /\ reranker' = r.reranker
          /\ loadError' = r.loadError
          /\ Accessed("get_reranker", r, RerankerAccess(reranker, loadError, env))
    /\ UNCHANGED <<index, client, model, embedder, embedderLoadError, clock>>

CallReleaseReranker(env) ==
    /\ calls < MaxAccesses
    /\ \E r \in {ReleaseReranker(reranker, env)} :
          /\ reranker' = r.reranker
          /\ Accessed("release_reranker", r, NoAccess)
    /\ UNCHANGED <<index, client, loadError, model, embedder,
                   embedderLoadError, clock>>

CallGetEmbedder(env) ==
    /\ calls < MaxAccesses
    /\ \E r \in {GetEmbedder(embedder, embedderLoadError, env)} :
          /\ embedder' = r.embedder
          /\ embedderLoadError' = r.loadError
          /\ Accessed("get_embedder", r, r.access)
    /\ UNCHANGED <<index, client, reranker, loadError, model, clock>>

CallReleaseEmbedder(env) ==
    /\ calls < MaxAccesses
    /\ \E r \in {ReleaseEmbedder(embedder, env)} :
          /\ embedder' = r.embedder
          /\ Accessed("release_embedder", r, NoAccess)
    /\ UNCHANGED <<index, client, reranker, loadError, model,
                   embedderLoadError, clock>>

\* services.embedding.embed_query(query)
CallEmbedQuery(env) ==
    /\ calls < MaxAccesses
    /\ \E r \in {EmbedQuery(model, env)} :
          /\ model' = r.model
          /\ Accessed("embed_query", r, r.access)
    /\ UNCHANGED <<index, client, reranker, loadError, embedder,
                   embedderLoadError, clock>>

\* what an upsert call leaves behind
Upserted(op, c, u) ==
    /\ index' = u.index
    /\ client' = u.client
    /\ model' = u.model
    /\ failed' = failed \cup (u.access.loads \cap u.access.denied)
    /\ last' = [NoCall EXCEPT !.op = op, !.coll = c, !.raised = u.raised,
                  !.points = u.points, !.access = u.access,
                  !.failedBefore = failed]
    /\ calls' = calls + 1
    /\ pre' = index
    /\ UNCHANGED <<threads, generation>>
    /\ UNCHANGED <<reranker, loadError, embedder, embedderLoadError, clock>>

CallUpsertDocument(doc_id, text, metadata, env) ==
    /\ calls < MaxUpserts
    /\ \E u \in {UpsertDocument(index, client, model, doc_id, text, metadata,
                                 env)} :
          Upserted("upsert_document", COLLECTION_DOCUMENTS, u)

CallUpsertMessage(message_id, text, metadata, env) ==
    /\ calls < MaxUpserts
    /\ \E u \in {UpsertMessage(index, client, model, message_id, text,
                                metadata, env)} :
          Upserted("upsert_message", COLLECTION_MESSAGES, u)

CallUpsertBatch(c, points, env) ==
    /\ calls < MaxUpserts
    /\ \E u \in {UpsertBatch(index, client, model, c, points, env)} :
          Upserted("upsert_batch", c, u)

NextUpsert ==
    \/ \E doc_id \in UpsertIds(COLLECTION_DOCUMENTS), text \in UpsertTexts,
          metadata \in Metadata, env \in UpsertEnvs :
            CallUpsertDocument(doc_id, text, metadata, env)
    \/ \E message_id \in UpsertIds(COLLECTION_MESSAGES), text \in UpsertTexts,
          metadata \in Metadata, env \in UpsertEnvs :
            CallUpsertMessage(message_id, text, metadata, env)
    \/ \E c \in FeedbackCollections, env \in UpsertEnvs :
          \E points \in PointBatches(c) : CallUpsertBatch(c, points, env)

\* the summary a job returns, and what it did
RunOf(j) ==
    <<[finished |-> j.finished, embedded |-> j.embedded,
       skipped |-> j.skipped, errors |-> j.errors, tried |-> j.tried,
       stored |-> j.stored, handed |-> j.handed,
       failedAt |-> j.failedAt]>>

\* a run of a bulk job that returned or raised
BulkRun(job, table, env) ==
    /\ calls < MaxRuns
    /\ env.stopAfter = <<>>
    /\ \E j \in {BulkEmbed(job, index, client, model, table, env)} :
          /\ index' = j.index
          /\ client' = GetClient(client, env).client
          /\ model' = j.model
          /\ failed' = failed \cup (j.access.loads \cap j.access.denied)
          /\ last' = [NoCall EXCEPT !.op = job, !.coll = TargetOf(job),
                        !.table = table, !.raised = j.raised,
                        !.access = j.access, !.failedBefore = failed,
                        !.run = RunOf(j)]
    /\ calls' = calls + 1
    /\ pre' = index
    /\ UNCHANGED <<threads, generation>>
    /\ UNCHANGED <<reranker, loadError, embedder, embedderLoadError, clock>>

\* a run during which the process is killed between two batches: the index
\* keeps what was written, the state of the process is gone
BulkRunKilled(job, table, env) ==
    /\ calls < MaxRuns
    /\ env.stopAfter # <<>>
    /\ \E j \in {BulkEmbed(job, index, client, model, table, env)} :
          /\ index' = j.index
          /\ last' = [NoCall EXCEPT !.op = job, !.coll = TargetOf(job),
                        !.table = table, !.killed = TRUE, !.run = RunOf(j)]
    /\ client' = "none"
    /\ model' = "none"
    /\ reranker' = "none"
    /\ loadError' = FALSE
    /\ embedder' = "none"
    /\ embedderLoadError' = FALSE
    /\ failed' = {}
    /\ calls' = calls + 1
    /\ pre' = index
    /\ UNCHANGED <<threads, generation>>
    /\ UNCHANGED clock

NextBulk ==
    \/ \E job \in Jobs, env \in BulkEnvs : BulkRun(job, TableOf(job), env)
    \/ \E job \in Jobs, env \in BulkEnvs : BulkRunKilled(job, TableOf(job), env)

NextRerank ==
    \/ \E env \in LoadEnvs : CallGetReranker(env)
    \/ \E env \in LoadEnvs : CallReleaseReranker(env)
    \/ \E q \in Queries, c \in Collections, env \in InferEnvs :
          \E candidates \in RerankInputs(c) : CallRerank(q, c, candidates, env)

NextModels ==
    \/ \E env \in LoadEnvs : CallGetReranker(env)
    \/ \E env \in LoadEnvs : CallReleaseReranker(env)
    \/ \E env \in LoadEnvs : CallGetEmbedder(env)
    \/ \E env \in LoadEnvs : CallReleaseEmbedder(env)
    \/ \E env \in LoadEnvs : CallEmbedQuery(env)
    \/ \E q \in Queries, c \in Collections, limit \in Limits,
          rerank \in BOOLEAN :
            \E env \in SearchEnvs(rerank) : Search(q, c, limit, rerank, env)

NextUsage ==
    \E rag_scores \in HitLists, model_response \in Responses :
        CallComputeUsageSignal(rag_scores, model_response)

NextSearch ==
    \E q \in Queries, c \in Collections, limit \in Limits, rerank \in BOOLEAN :
        \E env \in SearchEnvs(rerank) : Search(q, c, limit, rerank, env)

NextSearchAll ==
    \E q \in Queries, limit \in Limits, rerank \in BOOLEAN,
       envD \in SearchAllEnvs, envM \in SearchAllEnvs :
        SearchAll(q, limit, rerank, envD, envM)

\* feedback inputs for the fault runs: one score each, the list shapes kept
FaultRerankResults ==
    {r \in RerankResults : Len(r) = 2 \/ r[1].rerank_score = <<1000>>}

FaultUsageResults ==
    {r \in UsageResults : Len(r) = 2 \/ r[1].usage_score = 1000}

NextWriteBack ==
    \/ \E q \in Queries, c \in Collections, limit \in Limits, env \in WriteEnvs :
        Search(q, c, limit, TRUE, env)
    \/ \E c \in FeedbackCollections, results \in FaultRerankResults,
          env \in WriteEnvs :
            CallWriteSalience(c, results, env)
    \/ \E c \in FeedbackCollections, results \in FaultUsageResults,
          env \in WriteEnvs :
            CallWriteUsageSalience(c, results, env)

\* the life of a point: salience feedback, then everything else that writes
\* or reads the index
NextPayload ==
    \/ \E c \in Collections, results \in FaultRerankResults :
          CallWriteSalience(c, results, OkEnv)
    \/ \E c \in Collections, results \in FaultUsageResults :
          CallWriteUsageSalience(c, results, OkEnv)
    \/ \E doc_id \in UpsertIds(COLLECTION_DOCUMENTS), text \in UpsertTexts,
          metadata \in Metadata :
            CallUpsertDocument(doc_id, text, metadata, OkEnv)
    \/ \E message_id \in UpsertIds(COLLECTION_MESSAGES), text \in UpsertTexts,
          metadata \in Metadata :
            CallUpsertMessage(message_id, text, metadata, OkEnv)
    \/ \E c \in Collections : \E points \in PointBatches(c) :
          CallUpsertBatch(c, points, OkEnv)
    \/ \E job \in Jobs, env \in {OkEnv, [OkEnv EXCEPT !.retrFail = {1}]} :
          BulkRun(job, TableOf(job), env)
    \/ \E q \in Queries, c \in Collections, limit \in Limits :
          Search(q, c, limit, FALSE, OkEnv)

\* chat turns: the reranker answers, or fails to load for the messages
ChatResponses == {ResponseApplePie, ResponseCar, ResponseLast, <<>>}

NextChat ==
    \E q \in Queries, max_chunks \in Limits, model_response \in ChatResponses,
       envM \in {OkEnv, [OkEnv EXCEPT !.loadOk = FALSE]} :
        ChatTurn(q, max_chunks, model_response, OkEnv, envM)

\* ------------------------------------------------------ concurrent callers
\* The calls of concurrent chat turns, step by step: each step is one call on
\* a collaborator (the index, the reranker singleton), and the steps of
\* different callers interleave freely. No collaborator fails here.

\* search(query, collection, limit) up to the candidates: _get_client(),
\* embed_query and query_points
ThreadSearch(t, q, c, limit) ==
    /\ threads[t].pc = "idle"
    /\ \E candidates \in {QueryPoints(index, c, q, AnnLimit(limit, TRUE), FALSE)} :
          threads' = [threads EXCEPT ![t] =
              [Idle EXCEPT !.op = "search", !.q = q, !.coll = c,
                           !.limit = limit, !.candidates = candidates,
                           !.pc = IF candidates = <<>> THEN "done" ELSE "get"]]
    /\ client' = "connected"
    /\ model' = "loaded"
    /\ UNCHANGED <<index, reranker, loadError, embedder, embedderLoadError,
                   failed, clock, calls, last, pre, generation>>

\* reranker = get_reranker(): the caller holds the singleton, a new
\* NemotronReranker when there was none
ThreadGetReranker(t) ==
    /\ threads[t].pc = "get"
    /\ \E g \in {GetReranker(reranker, loadError, OkEnv)} :
          /\ reranker' = g.reranker
          /\ loadError' = g.loadError
    /\ generation' = IF reranker = "none" THEN generation + 1 ELSE generation
    /\ threads' = [threads EXCEPT ![t].held = generation', ![t].pc = "rerank"]
    /\ UNCHANGED <<index, client, model, embedder, embedderLoadError,
                   failed, clock, calls, last, pre>>

\* the object the caller holds still has its model: it is the singleton and
\* nobody unloaded it
Live(t) == reranker = "loaded" /\ threads[t].held = generation

\* reranked = reranker.rerank(query, candidates) on the object the caller
\* holds; self.model is None after unload(), the call raises and the
\* pipeline falls back to the ANN candidates
ThreadRerank(t) ==
    /\ threads[t].pc = "rerank"
    /\ threads' = [threads EXCEPT
          ![t].reranked = Live(t),
          ![t].result =
              IF Live(t)
              THEN Rerank(threads[t].q, threads[t].coll, threads[t].candidates)
              ELSE threads[t].candidates,
          ![t].pc = "release"]
    /\ UNCHANGED <<index, client, reranker, loadError, model, embedder,
                   embedderLoadError, failed, clock, calls, last, pre,
                   generation>>

\* finally: release_reranker() unloads whatever the singleton is now; then
\* write_salience(collection, reranked) takes its timestamp and starts its
\* loop, or the fallback returns candidates[:limit]
ThreadRelease(t) ==
    /\ threads[t].pc = "release"
    /\ reranker' = ReleaseReranker(reranker, OkEnv).reranker
    /\ threads' = [threads EXCEPT
          ![t].todo = IF threads[t].reranked THEN threads[t].result ELSE <<>>,
          ![t].result = Take(threads[t].result, threads[t].limit),
          ![t].now = clock + 1,
          ![t].pc = IF threads[t].reranked THEN "retrieve" ELSE "done"]
    /\ clock' = clock + 1
    /\ UNCHANGED <<index, client, loadError, model, embedder,
                   embedderLoadError, failed, calls, last, pre, generation>>

\* write_usage_salience(collection, usage_results) up to its loop
ThreadWriteUsage(t, c, results) ==
    /\ threads[t].pc = "idle"
    /\ threads' = [threads EXCEPT ![t] =
          [Idle EXCEPT !.op = "write_usage_salience", !.coll = c,
                       !.todo = results, !.now = clock + 1,
                       !.pc = "retrieve"]]
    /\ client' = "connected"
    /\ clock' = clock + 1
    /\ UNCHANGED <<index, reranker, loadError, model, embedder,
                   embedderLoadError, failed, calls, last, pre, generation>>

\* new_salience of the caller's loop for the result r, from the salience it
\* read; <<>> when the loop writes nothing for r
NewSalience(op, current, r) ==
    IF op = "search" THEN <<BoostedSalience(current, RerankScoreOf(r))>>
    ELSE UsageSalience(current, r.usage_score)

\* the loop passes over the result: an empty id, a point that is not in the
\* index (set_payload finds nothing to write), or a usage score in the
\* neutral zone
PassedOver(th, idx) ==
    \/ Head(th.todo).id = 0
    \/ Head(th.todo).id \notin DOMAIN idx[th.coll]
    \/ NewSalience(th.op, SALIENCE_DEFAULT, Head(th.todo)) = <<>>

\* the next iteration, or the end of the call
Onward(th) == IF Tail(th.todo) = <<>> THEN "done" ELSE "retrieve"

\* retrieved = client.retrieve(collection, [point_id]): the caller reads the
\* current salience of the next result
ThreadRetrieve(t) ==
    /\ threads[t].pc = "retrieve"
    /\ threads[t].todo # <<>>
    /\ threads' = [threads EXCEPT ![t] =
          IF PassedOver(threads[t], index)
          THEN [@ EXCEPT !.todo = Tail(@), !.pc = Onward(threads[t])]
          ELSE [@ EXCEPT !.current = ReadSalience(index, threads[t].coll,
                                                  Head(threads[t].todo).id),
                         !.pc = "set"]]
    /\ UNCHANGED <<index, client, reranker, loadError, model, embedder,
                   embedderLoadError, failed, clock, calls, last, pre,
                   generation>>

\* the keys the caller's set_payload writes
StampOf(th) ==
    IF th.op = "search"
    THEN [salience |-> NewSalience(th.op, th.current, Head(th.todo)),
          last_retrieved |-> <<th.now>>]
    ELSE [salience |-> NewSalience(th.op, th.current, Head(th.todo)),
          last_usage_signal |-> <<th.now>>]

\* client.set_payload(...): the caller writes the salience it computed from
\* what it read
ThreadSetPayload(t) ==
    /\ threads[t].pc = "set"
    /\ index' = SetPayload(index, threads[t].coll, Head(threads[t].todo).id,
                           StampOf(threads[t]))
    /\ threads' = [threads EXCEPT
          ![t].applied = Append(@, Head(threads[t].todo)),
          ![t].todo = Tail(@),
          ![t].pc = Onward(threads[t])]
    /\ UNCHANGED <<client, reranker, loadError, model, embedder,
                   embedderLoadError, failed, clock, calls, last, pre,
                   generation>>

\* the calls of the concurrent callers: searches of the messages and usage
\* write-backs on them
ThreadUsageResults ==
    {<<[id |-> 1, usage_score |-> 1000]>>,
     <<[id |-> 2, usage_score |-> 0], [id |-> 1, usage_score |-> 200]>>}

NextThreads ==
    \/ \E t \in Threads, q \in Queries, limit \in Limits :
          ThreadSearch(t, q, COLLECTION_MESSAGES, limit)
    \/ \E t \in Threads : ThreadGetReranker(t)
    \/ \E t \in Threads : ThreadRerank(t)
    \/ \E t \in Threads : ThreadRelease(t)
    \/ \E t \in Threads, results \in ThreadUsageResults :
          ThreadWriteUsage(t, COLLECTION_MESSAGES, results)
    \/ \E t \in Threads : ThreadRetrieve(t)
    \/ \E t \in Threads : ThreadSetPayload(t)

NextFeedback ==
    \/ \E c \in FeedbackCollections, results \in RerankResults,
          env \in WriteEnvs :
            CallWriteSalience(c, results, env)
    \/ \E c \in FeedbackCollections, results \in UsageResults,
          env \in WriteEnvs :
            CallWriteUsageSalience(c, results, env)

Next ==
    \/ NextSearch
    \/ NextSearchAll
    \/ NextFeedback
    \/ NextUsage
    \/ NextRerank
    \/ NextModels
    \/ NextUpsert
    \/ NextBulk
    \/ NextPayload
    \/ NextChat
    \/ NextThreads

\* every call of the core, interleaved
Spec == Init /\ [][Next]_vars

\* searches of one collection only
SpecSearch == Init /\ [][NextSearch]_vars

\* searches across the collections only
SpecSearchAll == Init /\ [][NextSearchAll]_vars

\* direct salience feedback only
SpecFeedback == Init /\ [][NextFeedback]_vars

\* the reranker called directly
SpecRerank == Init /\ [][NextRerank]_vars

\* model accessors and searches, interleaved
SpecModels == Init /\ [][NextModels]_vars

\* upserts only
SpecUpsert == Init /\ [][NextUpsert]_vars

\* bulk embedding jobs only
SpecBulk == Init /\ [][NextBulk]_vars

\* salience feedback interleaved with upserts, bulk jobs and plain searches
SpecPayload == Init /\ [][NextPayload]_vars
SpecChat == Init /\ [][NextChat]_vars
SpecThreads == Init /\ [][NextThreads]_vars

\* usage estimates only
SpecUsage == Init /\ [][NextUsage]_vars

\* reranked searches and direct salience feedback, under index faults
SpecWriteBack == Init /\ [][NextWriteBack]_vars

\* ================================================================== properties
\* the salience a payload stands for (0.5 while the key is absent)
Effective(payload) == CurrentSalience(payload)

NonIncreasing(s, k) ==
    \A i \in 1..(Len(s) - 1) : KeyOf(s[i], k) >= KeyOf(s[i + 1], k)

Ids(s) == {s[i].id : i \in 1..Len(s)}

\* results of the last feedback call that name a point of its collection
Named ==
    {i \in 1..Len(last.results) :
        last.results[i].id # 0 /\ last.results[i].id \in DOMAIN pre[last.coll]}

\* C1: after every write_salience / write_usage_salience call the persisted
\* salience of every point is within [0.0, 1.0], whatever rerank_score the
\* reranker produced (raw logits, negative or above 1).
C1_SalienceWithinBounds ==
    \A c \in DOMAIN index : \A p \in DOMAIN index[c] :
        index[c][p].salience # <<>> =>
            /\ 0 <= index[c][p].salience[1]
            /\ index[c][p].salience[1] <= ONE

\* C2: when the reranking client raises, search(rerank=true) with a
\* non-empty ANN result does not raise, returns exactly the first `limit`
\* ANN candidates in ANN order (none scored by the reranker), and writes no
\* salience.
C2_RerankFallback ==
    (last.op = "search" /\ last.rerank /\ last.call.rerankRaised
        /\ last.call.ann # <<>>) =>
        /\ ~last.raised
        /\ last.result # <<>>
        /\ last.result =
             SubSeq(last.call.ann, 1, Min(last.limit, Len(last.call.ann)))
        /\ NonIncreasing(last.result, "score")
        /\ \A i \in 1..Len(last.result) : last.result[i].rerank_score = <<>>
        /\ index = pre

\* C2 witness: a second search in a row whose reranker load failure is the
\* cached one, with more ANN candidates than `limit`
C2_Witness ==
    /\ last.op = "search" /\ last.rerank /\ last.call.rerankRaised
    /\ loadError /\ calls = 2
    /\ Len(last.call.ann) > last.limit
    /\ Len(last.result) = last.limit

C4_WriteBackNeverFails ==
    /\ (last.op = "search" /\ last.call.reranked) =>
        /\ ~last.raised
        /\ ~last.call.writeRaised
        /\ last.result =
             Take(SortDesc(Scored(last.q, last.coll, last.call.ann),
                           "rerank_score"), last.limit)
    /\ (last.op \in {"write_salience", "write_usage_salience"}) => ~last.raised

\* C4 witness: a reranked search during which the write-back of some
\* candidate failed (its payload was not stamped), and which returned results
C4_Witness ==
    /\ last.op = "search" /\ last.call.reranked
    /\ last.result # <<>>
    /\ \E p \in Ids(last.call.ann) :
         index[last.coll][p].last_retrieved # <<last.now>>
    /\ \E p \in Ids(last.call.ann) :
         index[last.coll][p].last_retrieved = <<last.now>>

\* C5: search(rerank=false) asks the index for exactly `limit` neighbours and
\* returns them unchanged: at most `limit` candidates, in non-increasing
\* score order, none carrying a rerank_score.
C5_AnnOnly ==
    (last.op = "search" /\ ~last.rerank) =>
        /\ last.call.annLimit # <<>> => last.call.annLimit = <<last.limit>>
        /\ ~last.raised =>
            /\ last.call.annLimit = <<last.limit>>
            /\ last.result = last.call.ann
            /\ Len(last.result) <= last.limit
            /\ NonIncreasing(last.result, "score")
            /\ \A i \in 1..Len(last.result) :
                 last.result[i].rerank_score = <<>>

\* C5 witness: an ANN-only search that fills its limit from a larger
\* collection, after an earlier search
C5_Witness ==
    /\ last.op = "search" /\ ~last.rerank /\ ~last.raised
    /\ calls = 2
    /\ Len(last.result) = last.limit
    /\ last.limit > 1
    /\ Cardinality(DOMAIN index[last.coll]) > last.limit

\* C6: search_all returns at most `limit` results, and every result carries
\* a source_collection such that (source_collection, id) addresses the point
\* in the vector index.
C6_SourceCollectionAddressesPoint ==
    (last.op = "search_all" /\ ~last.raised) =>
        /\ Len(last.result) <= last.limit
        /\ \A i \in 1..Len(last.result) :
             /\ last.result[i].source_collection # <<>>
             /\ last.result[i].source_collection[1] \in DOMAIN index
             /\ last.result[i].id
                  \in DOMAIN index[last.result[i].source_collection[1]]

\* the merged per-collection results of the last search_all
MergedLast ==
    Tagged(last.docs.result, "documents") \o Tagged(last.msgs.result, "messages")

\* s is a top-`limit` prefix of all, ordered descending by key k
TopPrefix(s, all, limit, k) ==
    /\ Len(s) = Min(limit, Len(all))
    /\ NonIncreasing(s, k)
    /\ \A i \in 1..Len(s) : \E j \in 1..Len(all) : s[i] = all[j]
    /\ \A j \in 1..Len(all) :
         (\A i \in 1..Len(s) : s[i] # all[j]) =>
            \A i \in 1..Len(s) : KeyOf(s[i], k) >= KeyOf(all[j], k)

\* C7: the list search_all returns is the top-`limit` prefix of the merged
\* results, ordered by rerank_score when reranking was used (every merged
\* result is reranked), and by ANN score otherwise (rerank=false, or
\* rerank=true and the searches fell back to ANN results without
\* rerank_score).
C7_MergedOrder ==
    (last.op = "search_all" /\ ~last.raised) =>
        /\ (last.rerank /\ last.docs.reranked /\ last.msgs.reranked) =>
              TopPrefix(last.result, MergedLast, last.limit, "rerank_score")
        /\ (\A i \in 1..Len(MergedLast) : MergedLast[i].rerank_score = <<>>) =>
              TopPrefix(last.result, MergedLast, last.limit, "score")

\* C8: a write_salience call that meets no fault sets the salience of each
\* named point to min(1.0, current + rerank_score * BOOST_RATE), current being
\* the stored salience or 0.5; from no stored salience and rerank_score 1.0
\* the stored salience is exactly 0.55.
C8_BoostFormula ==
    (last.op = "write_salience" /\ last.clean /\ last.coll \in Collections) =>
        \A i \in Named :
            LET r == last.results[i]
                old == pre[last.coll][r.id]
                new == index[last.coll][r.id]
                score == IF r.rerank_score = <<>> THEN 0 ELSE r.rerank_score[1]
                current == IF old.salience = <<>> THEN SALIENCE_DEFAULT
                           ELSE old.salience[1]
            IN /\ new.salience # <<>>
               /\ new.salience[1] * ONE
                    = Min(ONE * ONE, current * ONE + score * SALIENCE_BOOST_RATE)
               /\ (old.salience = <<>> /\ score = 1000) => new.salience = <<550>>

\* C8 witness: the 0.55 scenario
C8_Witness ==
    /\ last.op = "write_salience" /\ last.clean /\ last.coll \in Collections
    /\ last.results = <<[id |-> 1, rerank_score |-> <<1000>>]>>
    /\ 1 \in DOMAIN pre[last.coll]
    /\ pre[last.coll][1].salience = <<>>
    /\ index[last.coll][1].salience = <<550>>

\* C9: one successful write_salience with rerank_score r > 0 leaves a stored
\* salience strictly greater than the starting salience s when s is in
\* [0, 1), and leaves 1.0 when s = 1.0.
C9_MonotonicBoost ==
    (last.op = "write_salience" /\ last.clean /\ last.coll \in Collections) =>
        \A i \in Named :
            LET r == last.results[i]
                s == Effective(pre[last.coll][r.id])
                n == Effective(index[last.coll][r.id])
            IN RerankScoreOf(r) > 0 =>
                /\ (0 <= s /\ s < ONE) => n > s
                /\ s = ONE => (n = ONE /\ index[last.coll][r.id].salience = <<ONE>>)

\* C9 witness: a boost of a point already at the ceiling
C9_Witness ==
    /\ last.op = "write_salience" /\ last.clean /\ last.coll \in Collections
    /\ \E i \in Named :
         /\ RerankScoreOf(last.results[i]) > 0
         /\ pre[last.coll][last.results[i].id].salience = <<ONE>>
         /\ index[last.coll][last.results[i].id].salience = <<ONE>>

\* C10: rerank feedback is a one-sided ratchet: after a write_salience call
\* no point's salience is lower than before it, for every rerank_score the
\* reranker can produce.
C10_RerankRatchet ==
    last.op = "write_salience" =>
        \A c \in DOMAIN index : \A p \in DOMAIN index[c] :
            Effective(index[c][p]) >= Effective(pre[c][p])

\* results of the last feedback call whose point no other result names
Single == {i \in Named : \A j \in Named : last.results[j].id = last.results[i].id => j = i}

\* C11: a write_usage_salience call that meets no fault applies the three-way
\* policy to each hit: usage_score > 0.3 stores
\* min(1.0, current + usage_score * USAGE_RATE), usage_score < 0.1 stores
\* max(0.0, current - DECAY_RATE), current being the stored salience or 0.5;
\* a boost never lowers the salience and a decay never raises it.
C11_UsagePolicy ==
    (last.op = "write_usage_salience" /\ last.clean /\ last.coll \in Collections) =>
        \A i \in Single :
            LET r == last.results[i]
                old == pre[last.coll][r.id]
                new == index[last.coll][r.id]
                current == IF old.salience = <<>> THEN SALIENCE_DEFAULT
                           ELSE old.salience[1]
            IN /\ r.usage_score > 300 =>
                    /\ new.salience # <<>>
                    /\ new.salience[1] * ONE
                         = Min(ONE * ONE,
                               current * ONE + r.usage_score * SALIENCE_USAGE_RATE)
                    /\ new.salience[1] >= current
               /\ r.usage_score < 100 =>
                    /\ new.salience # <<>>
                    /\ new.salience[1] = Max(0, current - SALIENCE_DECAY_RATE)
                    /\ new.salience[1] <= current

\* C12: a hit whose usage_score lies in [0.1, 0.3], both ends included, makes
\* write_usage_salience write nothing for its point: the salience and the
\* last_usage_signal of the point are what they were before the call.
C12_DeadZone ==
    (last.op = "write_usage_salience" /\ last.coll \in Collections) =>
        \A i \in Single :
            (100 <= last.results[i].usage_score
                /\ last.results[i].usage_score <= 300) =>
                index[last.coll][last.results[i].id]
                    = pre[last.coll][last.results[i].id]

\* C12 witness: a hit at the 0.3 boundary whose point keeps the salience an
\* earlier call stored, in a call whose other hit is boosted
C12_Witness ==
    /\ last.op = "write_usage_salience" /\ last.clean /\ last.coll \in Collections
    /\ index # pre
    /\ \E i \in Single :
         /\ last.results[i].usage_score = 300
         /\ pre[last.coll][last.results[i].id].salience # <<>>
         /\ index[last.coll][last.results[i].id]
              = pre[last.coll][last.results[i].id]

\* the text of a hit's title ("" when the hit has none)
TitleOf(hit) == IF hit.title = <<>> THEN <<>> ELSE hit.title[1]

\* C13: compute_usage_signal(hits, response) never raises; when hits and
\* response are both non-empty it returns one record per hit, in the order of
\* the hits, each the hit with a usage_score in [0.0, 1.0]; it returns the
\* empty list only when hits is empty or response is empty.
C13_OneRecordPerHit ==
    last.op = "compute_usage_signal" =>
        /\ ~last.raised
        /\ (last.results # <<>> /\ last.response # <<>>) =>
            /\ Len(last.result) = Len(last.results)
            /\ \A i \in 1..Len(last.result) :
                 /\ last.result[i].id = last.results[i].id
                 /\ last.result[i].title = last.results[i].title
                 /\ 0 <= last.result[i].usage_score
                 /\ last.result[i].usage_score <= ONE
        /\ last.result = <<>> => (last.results = <<>> \/ last.response = <<>>)

\* --- keywords, stated over the positions of a lowercased text
\* a match of [a-z][a-z0-9_]+ starts at i: a letter followed by a word
\* character, with no letter before it in its run of word characters
WordStarts(t) ==
    {i \in 1..Len(t) :
        /\ t[i] \in Letters
        /\ i < Len(t) /\ t[i + 1] \in WordChars
        /\ \A k \in 1..(i - 1) :
             (\A m \in k..(i - 1) : t[m] \in WordChars) => t[k] \notin Letters}

\* where the run of word characters holding i ends
WordEnd(t, i) ==
    CHOOSE j \in i..Len(t) :
        /\ \A m \in i..j : t[m] \in WordChars
        /\ j = Len(t) \/ t[j + 1] \notin WordChars

WordAt(t, i) == SubSeq(t, i, WordEnd(t, i))

\* the starts of the words that count: three characters or more, no stopword
KeywordStarts(t) ==
    {i \in WordStarts(t) : WordEnd(t, i) - i + 1 >= 3 /\ WordAt(t, i) \notin STOPWORDS}

\* the words that count, each with the place it starts at
Occurrences(t, S) == {<<i, WordAt(t, i)>> : i \in S}

\* <<word, how often it occurs, where it occurs first>> per word of P
Tally(P) ==
    {<<w,
       Cardinality({p \in P : p[2] = w}),
       CHOOSE i \in {p[1] : p \in P} :
           <<i, w>> \in P /\ \A p \in P : p[2] = w => i <= p[1]>> :
     w \in {p[2] : p \in P}}

\* x is more frequent than y, or as frequent and met earlier
Outranks(x, y) == x[2] > y[2] \/ (x[2] = y[2] /\ x[3] < y[3])

\* the n first keywords of the tally T
TopOf(T, n) ==
    {y[1] : y \in {x \in T : Cardinality({z \in T : Outranks(z, x)}) < n}}

KeywordsAt(t, n) == TopOf(Tally(Occurrences(t, KeywordStarts(t))), n)

TopKeywords(text, n) == KeywordsAt(Lower(text), n)

\* the keyword sets of the sample titles and responses
TitleKeywords == [t \in Titles |-> TopKeywords(t, 15)]

ResponseKeywords == [r \in Responses |-> TopKeywords(r, 50)]

\* s is n / d rounded to the nearest thousandth
Nearest(s, n, d) ==
    /\ 2 * (s * d - ONE * n) <= d
    /\ 2 * (ONE * n - s * d) <= d

\* the last call is the apple-pie example
ApplePieCall ==
    /\ last.op = "compute_usage_signal"
    /\ last.results = <<Hit(1, <<TitleApplePie>>)>>
    /\ last.response = ResponseApplePie

\* C14 (amended): usage_score is |H \cap R| / |H| rounded to three decimals,
\* and 0.0 when H is empty, H being the 15 most frequent keywords of the
\* hit's title and R the 50 most frequent keywords of the response (equal
\* frequencies in order of first occurrence); the keywords of a text are the
\* matches of [a-z][a-z0-9_]+ in its lowercased form that have three or more
\* characters and are no stopword.  The hit "apple pie recipe" scores 0.667
\* against "I love apple pie".
C14_UsageScore ==
    last.op = "compute_usage_signal" =>
        /\ \A i \in 1..Len(last.result) :
             LET H == TitleKeywords[TitleOf(last.results[i])]
                 R == ResponseKeywords[last.response]
             IN IF H = {} THEN last.result[i].usage_score = 0
                ELSE Nearest(last.result[i].usage_score,
                             Cardinality(H \cap R), Cardinality(H))
        /\ ApplePieCall =>
             last.result = <<[id |-> 1, title |-> <<TitleApplePie>>,
                              usage_score |-> 667]>>

\* C14 witness: the apple-pie example, scored
C14_Witness == ApplePieCall /\ Len(last.result) = 1 /\ last.result[1].usage_score = 667

\* the lowercase alphanumeric words of a lowercased text: its maximal runs
\* of letters and digits
AlnumWords(t) ==
    {SubSeq(t, i, j) : i \in 1..Len(t), j \in 1..Len(t)} \cap
    {SubSeq(t, m[1], m[2]) :
        m \in {p \in (1..Len(t)) \X (1..Len(t)) :
                /\ p[1] <= p[2]
                /\ \A k \in p[1]..p[2] : t[k] \in WordChars \ {"_"}
                /\ p[1] = 1 \/ t[p[1] - 1] \notin WordChars \ {"_"}
                /\ p[2] = Len(t) \/ t[p[2] + 1] \notin WordChars \ {"_"}}}

\* the keywords as the claim words them
PlainKeywords(text) ==
    {w \in AlnumWords(Lower(text)) : Len(w) >= 3 /\ w \notin STOPWORDS}

\* C14: compute_usage_signal([{"title": "apple pie recipe"}],
\* "I love apple pie") yields usage_score 1.0; in general usage_score is
\* |hit_keywords \cap response_keywords| / max(|hit_keywords|, 1), the
\* keywords being the lowercase alphanumeric words of three or more
\* characters that are no stopwords.
C14_ApplePieScoresOne ==
    last.op = "compute_usage_signal" =>
        /\ ApplePieCall =>
             /\ Len(last.result) = 1
             /\ last.result[1].usage_score = ONE
        /\ \A i \in 1..Len(last.result) :
             LET H == PlainKeywords(TitleOf(last.results[i]))
                 R == PlainKeywords(last.response)
             IN Nearest(last.result[i].usage_score,
                        Cardinality(H \cap R), Max(Cardinality(H), 1))


\* C15: rerank(query, candidates), when it returns, returns the candidates it
\* was given, each exactly once (same ids, same count), each with
\* rerank_score set and every other field as it was, sorted by rerank_score,
\* highest first; an empty list comes back empty and the model is not run.
SameButScore(a, b) == [a EXCEPT !.rerank_score = <<>>] = [b EXCEPT !.rerank_score = <<>>]

Rearranges(out, inp) ==
    /\ Len(out) = Len(inp)
    /\ \E f \in [1..Len(inp) -> 1..Len(inp)] :
          /\ \A i, j \in 1..Len(inp) : f[i] = f[j] => i = j
          /\ \A i \in 1..Len(inp) : SameButScore(out[f[i]], inp[i])

C15_RerankPermutes ==
    (last.op = "rerank" /\ ~last.raised) =>
        /\ Rearranges(last.result, last.candidates)
        /\ \A i \in 1..Len(last.result) : last.result[i].rerank_score # <<>>
        /\ NonIncreasing(last.result, "rerank_score")
        /\ last.candidates = <<>> => last.result = <<>> /\ ~last.invoked

\* C15 witness: rerank reordered a list of three that named no point twice
\* and came scored and tagged by an earlier call
C15_Witness ==
    /\ last.op = "rerank" /\ ~last.raised /\ last.invoked
    /\ Len(last.candidates) = 3
    /\ Cardinality(Ids(last.candidates)) = 3
    /\ last.candidates[1].source_collection # <<>>
    /\ last.candidates[1].rerank_score # <<>>
    /\ last.result[1].id # last.candidates[1].id

\* C16: a search with rerank = false, and a search with rerank = true whose
\* ANN candidate list is empty, reranks nothing and writes nothing back: the
\* reranker is neither loaded nor called, no result carries a rerank_score,
\* and every point of the index has the vector and payload it had before.
C16_NoRerankNoWrite ==
    [][(last'.op = "search" /\ (~last'.rerank \/ last'.call.ann = <<>>)) =>
          /\ index' = index
          /\ reranker' = reranker
          /\ loadError' = loadError
          /\ "reranker" \notin last'.access.accessed
          /\ ~last'.call.reranked
          /\ \A i \in 1..Len(last'.result) :
                last'.result[i].rerank_score = <<>>]_vars

\* C16 witness: a search with rerank = false that returned points whose
\* salience an earlier reranked search had written
C16_Witness ==
    /\ last.op = "search" /\ ~last.rerank /\ ~last.raised
    /\ last.result # <<>>
    /\ \E i \in 1..Len(last.result) :
          index[last.coll][last.result[i].id].salience # <<>>
    /\ index = pre

\* a search with rerank = true that found no candidate
C16_EmptyAnn ==
    /\ last.op = "search" /\ last.rerank /\ ~last.raised
    /\ last.call.annLimit # <<>>
    /\ last.call.ann = <<>>

\* C17: once a load of a model has raised, no later call attempts to load
\* that model again, and every later call of its accessor raises.
C17_LoadFailureCached ==
    /\ last.access.loads \cap last.failedBefore = {}
    /\ (last.access.accessed \cap last.failedBefore) \subseteq last.access.denied

\* C18: an upsert that returns leaves, under every id it wrote, exactly the
\* vector and payload of the last point written under that id, whatever was
\* stored there before; the points of the collection are those it had plus
\* the new ids, so the count grows only by the ids that were new, and every
\* other point is as it was.
LastWritten(points, id) ==
    points[CHOOSE i \in 1..Len(points) :
              /\ points[i].id = id
              /\ \A j \in (i + 1)..Len(points) : points[j].id # id].point

Written == {last.points[i].id : i \in 1..Len(last.points)}

C18_UpsertReplaces ==
    (last.op \in {"upsert_document", "upsert_message", "upsert_batch"}
        /\ ~last.raised) =>
        /\ DOMAIN index[last.coll] = DOMAIN pre[last.coll] \cup Written
        /\ Cardinality(DOMAIN index[last.coll]) =
             Cardinality(DOMAIN pre[last.coll])
               + Cardinality(Written \ DOMAIN pre[last.coll])
        /\ \A id \in Written :
             index[last.coll][id] = LastWritten(last.points, id)
        /\ \A p \in DOMAIN pre[last.coll] \ Written :
             index[last.coll][p] = pre[last.coll][p]
        /\ \A c \in DOMAIN index \ {last.coll} : index[c] = pre[c]

\* C18 witness: the second upsert of an id, with another text and metadata
\* than the first
C18_Witness ==
    /\ last.op = "upsert_document" /\ ~last.raised
    /\ calls = 2
    /\ Written \subseteq DOMAIN pre[last.coll]
    /\ \E id \in Written :
          /\ pre[last.coll][id].vector # index[last.coll][id].vector
          /\ pre[last.coll][id].meta # index[last.coll][id].meta
          /\ pre[last.coll][id].meta = 1

\* the rows of the last job's table that its SELECT returns, and of those the
\* ones that are not skipped for being too short
Fetched == Selected(last.op, last.table)

Eligible ==
    {Fetched[i].id : i \in {k \in 1..Len(Fetched) : ~TooShort(last.op, Fetched[k])}}

Bulk == last.op \in Jobs /\ last.run # <<>>

\* C19: in any run of a bulk job a row whose id is already in the target
\* collection is neither embedded nor upserted again, and is counted as
\* skipped; a run that returns without errors embeds exactly the rows not yet
\* indexed and leaves every row indexed, so that a run over a fully indexed
\* source reports embedded = 0 and leaves the index as it was.
C19_Resumable ==
    Bulk =>
        /\ \A id \in Eligible \cap DOMAIN pre[last.coll] :
              /\ id \notin last.run[1].tried
              /\ id \notin last.run[1].stored
              /\ index[last.coll][id] = pre[last.coll][id]
        /\ (last.run[1].finished /\ last.run[1].errors = <<>>) =>
              /\ last.run[1].tried = Eligible \ DOMAIN pre[last.coll]
              /\ last.run[1].embedded =
                   Cardinality(Eligible \ DOMAIN pre[last.coll])
              /\ last.run[1].skipped =
                   Len(Fetched) - Cardinality(Eligible \ DOMAIN pre[last.coll])
              /\ Eligible \subseteq DOMAIN index[last.coll]
              /\ Eligible \subseteq DOMAIN pre[last.coll] =>
                    last.run[1].embedded = 0 /\ index = pre

\* the offset of the batch that holds the row of this id
BatchOf(id) ==
    IF last.op = "domains" THEN 0
    ELSE BATCH_SIZE
           * (((CHOOSE i \in 1..Len(Fetched) : Fetched[i].id = id) - 1)
                \div BATCH_SIZE)

Offsets(s) == {s[i] : i \in 1..Len(s)}

\* C20: a run of a bulk job in which embedding or upserting a batch raised
\* returns its summary all the same, with exactly one error for each batch
\* that raised, in order; the rows of those batches are not counted as
\* embedded, and every row of every other batch is embedded or skipped.
C20_PartialFailure ==
    (Bulk /\ ~last.killed /\ last.run[1].failedAt # <<>>) =>
        /\ ~last.raised
        /\ last.run[1].finished
        /\ last.run[1].errors = last.run[1].failedAt
        /\ Cardinality(Offsets(last.run[1].errors)) = Len(last.run[1].errors)
        /\ last.run[1].embedded =
             Cardinality({id \in last.run[1].tried :
                            BatchOf(id) \notin Offsets(last.run[1].failedAt)})
        /\ last.run[1].skipped + Cardinality(last.run[1].tried) = Len(Fetched)
        /\ \A id \in last.run[1].tried :
              BatchOf(id) \notin Offsets(last.run[1].failedAt) =>
                  id \in DOMAIN index[last.coll]

\* C20 witness: the first batch of a documents run raised and the second
\* was embedded
C20_Witness ==
    /\ Bulk /\ last.op = "documents" /\ ~last.killed
    /\ last.run[1].failedAt = <<0>>
    /\ last.run[1].embedded > 0
    /\ last.run[1].skipped > 0

\* the passage of a source row as the job reads it, before any cut
SourceText(job, row) ==
    IF job = "messages" THEN Combined(row.text) ELSE row.text[1]

RowOf(id) == Fetched[CHOOSE i \in 1..Len(Fetched) : Fetched[i].id = id]

\* C21: wherever a text is embedded, the string handed to the embedding model
\* is the text cut to its first MAX_TEXT_CHARS characters (the text itself
\* when it is not longer): in upsert_document and upsert_message, whose
\* vector is the embedding of what was handed over, and in the three bulk
\* jobs.
C21_TruncatedBeforeEmbedding ==
    /\ (last.op \in {"upsert_document", "upsert_message"}) =>
          \A i \in 1..Len(last.points) :
              last.points[i].point.vector.of =
                  Truncated(last.points[i].point.text)
    /\ Bulk =>
          \A h \in last.run[1].handed :
              h.text = Truncated(SourceText(last.op, RowOf(h.id)))

\* C22: a search whose query embedding fails (the model does not load, or
\* encode raises) or whose ANN query fails raises to its caller and returns
\* nothing; the reranker is not reached and every point of the index keeps
\* its salience and timestamps.
C22_EmbedOrAnnFailureRaises ==
    [][(last'.op = "search" /\ last'.fault \in {"embed", "ann"}) =>
          /\ last'.raised
          /\ last'.result = <<>>
          /\ index' = index
          /\ reranker' = reranker
          /\ loadError' = loadError
          /\ "reranker" \notin last'.access.accessed
          /\ ~last'.call.reranked]_vars

\* C22 witness: a reranking search whose ANN query failed, over points that
\* carry the salience an earlier search wrote
C22_Witness ==
    /\ last.op = "search" /\ last.rerank /\ last.raised
    /\ last.fault = "ann"
    /\ \E p \in DOMAIN index[last.coll] :
          index[last.coll][p].salience # <<>>

\* a search whose query embedding failed
C22_EmbedFailed ==
    /\ last.op = "search" /\ last.rerank /\ last.raised
    /\ last.fault = "embed"
    /\ \E p \in DOMAIN index[last.coll] :
          index[last.coll][p].salience # <<>>

NotFeedback ==
    \/ last.op \in {"upsert_document", "upsert_message", "upsert_batch"}
    \/ last.op \in Jobs
    \/ last.op = "search" /\ ~last.rerank

\* C24: a call that is not write_salience or write_usage_salience (an upsert,
\* a bulk job, a search with rerank = false) leaves every point that existed
\* before it in place with the salience, last_retrieved and last_usage_signal
\* it had.
C24_SalienceOnlyByFeedback ==
    NotFeedback =>
        \A c \in DOMAIN pre : \A p \in DOMAIN pre[c] :
            /\ p \in DOMAIN index[c]
            /\ index[c][p].salience = pre[c][p].salience
            /\ index[c][p].last_retrieved = pre[c][p].last_retrieved
            /\ index[c][p].last_usage_signal = pre[c][p].last_usage_signal

\* the ids the last feedback call was given
Fed == {last.results[i].id : i \in 1..Len(last.results)}

\* C25: write_salience changes nothing but salience and last_retrieved of the
\* points it is given, write_usage_salience nothing but salience and
\* last_usage_signal: vector, text and the other payload keys of those
\* points, every other point and every other collection are as before, no
\* point appears or disappears, and a timestamp is absent until the first
\* write of its kind.
C25_WriteBackMerges ==
    /\ last.op = "none" =>
          \A c \in DOMAIN index : \A p \in DOMAIN index[c] :
              /\ index[c][p].last_retrieved = <<>>
              /\ index[c][p].last_usage_signal = <<>>
    /\ last.op \in {"write_salience", "write_usage_salience"} =>
          \A c \in DOMAIN index :
              /\ DOMAIN index[c] = DOMAIN pre[c]
              /\ \A p \in DOMAIN index[c] :
                    /\ index[c][p].vector = pre[c][p].vector
                    /\ index[c][p].text = pre[c][p].text
                    /\ index[c][p].meta = pre[c][p].meta
                    /\ last.op = "write_salience" =>
                          index[c][p].last_usage_signal
                              = pre[c][p].last_usage_signal
                    /\ last.op = "write_usage_salience" =>
                          index[c][p].last_retrieved = pre[c][p].last_retrieved
                    /\ (c # last.coll \/ p \notin Fed) =>
                          index[c][p] = pre[c][p]

\* C25 witness: write_usage_salience put the first last_usage_signal on a
\* point that write_salience had stamped before
C25_Witness ==
    /\ last.op = "write_usage_salience"
    /\ last.coll \in DOMAIN pre
    /\ 1 \in DOMAIN pre[last.coll]
    /\ pre[last.coll][1].last_retrieved # <<>>
    /\ pre[last.coll][1].last_usage_signal = <<>>
    /\ index[last.coll][1].last_usage_signal = <<last.now>>
    /\ index[last.coll][1].last_retrieved = pre[last.coll][1].last_retrieved

\* the last feedback call stamped point p with its own time
Stamped(p) ==
    /\ p \in DOMAIN index[last.coll]
    /\ IF last.op = "write_salience"
       THEN index[last.coll][p].last_retrieved = <<last.now>>
       ELSE index[last.coll][p].last_usage_signal = <<last.now>>

\* result r of the last feedback call asks for an update of its point
AsksUpdate(r) ==
    \/ last.op = "write_salience"
    \/ UsageSalience(SALIENCE_DEFAULT, r.usage_score) # <<>>

\* C26: within one write_salience or write_usage_salience call a result
\* with an empty id is never looked up in the index, and every result with
\* an indexed id whose own retrieve and set_payload work gets its update,
\* whatever happened to the results before it in the list.
C26_IndependentResults ==
    last.op \in {"write_salience", "write_usage_salience"} =>
        /\ \A i \in 1..Len(last.lookups) : last.lookups[i] # 0
        /\ (client = "connected" /\ last.coll \in Collections) =>
              \A i \in 1..Len(last.results) :
                  LET r == last.results[i]
                  IN  (/\ r.id \in DOMAIN pre[last.coll]
                       /\ r.id \notin last.unwritable
                       /\ AsksUpdate(r)) => Stamped(r.id)

\* C26 witness: the first result failed in the index and the second was
\* updated all the same
C26_Witness ==
    /\ last.op \in {"write_salience", "write_usage_salience"}
    /\ last.coll \in Collections
    /\ Len(last.results) = 2
    /\ last.results[1].id \in last.unwritable
    /\ last.results[2].id \notin last.unwritable
    /\ Stamped(last.results[2].id)

\* a result with an empty id was passed over and the next one updated
C26_EmptyIdSkipped ==
    /\ last.op \in {"write_salience", "write_usage_salience"}
    /\ last.coll \in Collections
    /\ Len(last.results) = 2
    /\ last.results[1].id = 0
    /\ last.lookups = <<last.results[2].id>>
    /\ Stamped(last.results[2].id)

\* C27: a point a bulk job created carries as payload text the very string
\* the job handed to the embedding model for it, which is the source passage
\* cut to MAX_TEXT_CHARS, so never longer than that, in the documents, the
\* messages and the domains job.
C27_PayloadIsEmbeddedText ==
    Bulk =>
        \A h \in last.run[1].handed :
            (h.id \in last.run[1].stored
                /\ h.id \in DOMAIN index[TargetOf(last.op)]) =>
                LET p == index[TargetOf(last.op)][h.id]
                IN  /\ p.text = h.text
                    /\ p.text = Truncated(SourceText(last.op, RowOf(h.id)))
                    /\ p.text.len <= MAX_TEXT_CHARS

\* the collection a hit of search_all came from
CameFrom(r) ==
    IF r.source_collection = <<"documents">> THEN COLLECTION_DOCUMENTS
    ELSE COLLECTION_MESSAGES

\* C28: in a chat turn every hit that went into the context and whose usage
\* score is above 0.3 or below 0.1 has its point stamped with the usage
\* write-back of this turn, in the collection the hit came from; the hits
\* handed to write_usage_salience carry a point id, and the collection
\* handed over is a collection of the index.
C28_UsageLoopCloses ==
    last.op = "chat_turn" =>
        /\ \A i \in 1..Len(last.result) :
              UsageSalience(SALIENCE_DEFAULT, last.result[i].usage_score) # <<>>
                => /\ last.used[i].id \in DOMAIN index[CameFrom(last.used[i])]
                   /\ index[CameFrom(last.used[i])][last.used[i].id]
                         .last_usage_signal = <<last.now>>
        /\ \A k \in 1..Len(last.passed) :
              /\ last.passed[k].collection \in Collections
              /\ \A i \in 1..Len(last.passed[k].hits) :
                    last.passed[k].hits[i].id # 0

\* a chat turn whose answer drew on a hit: its usage score is above 0.3
C28_HitUsed ==
    /\ last.op = "chat_turn"
    /\ \E i \in 1..Len(last.result) : last.result[i].usage_score > USAGE_BOOST_ABOVE

\* every concurrent caller has returned (or never called)
AllDone == \A t \in Threads : threads[t].pc \in {"idle", "done"}

\* the callers that wrote the salience of point p of collection c
Writers(c, p) ==
    {t \in Threads :
        /\ threads[t].coll = c
        /\ \E i \in 1..Len(threads[t].applied) : threads[t].applied[i].id = p}

\* the update of caller t to point p, applied to the salience s
UpdateOf(t, p, s) ==
    LET r == threads[t].applied[
                CHOOSE i \in 1..Len(threads[t].applied) :
                    threads[t].applied[i].id = p]
    IN  NewSalience(threads[t].op, s, r)[1]

RECURSIVE SerialOutcomes(_, _, _)
\* the saliences point p can end with when the callers of W update it one
\* after the other, in any order, starting from s
SerialOutcomes(s, W, p) ==
    IF W = {} THEN {s}
    ELSE UNION {SerialOutcomes(UpdateOf(t, p, s), W \ {t}, p) : t \in W}

\* C29: when concurrent callers (two searches, or a search and a usage
\* write-back) have updated the salience of the same point, the stored
\* salience is what the updates give when applied one after the other in
\* some order, however their retrieve and set_payload steps interleaved.
C29_NoLostUpdate ==
    AllDone =>
        \A c \in Collections : \A p \in DOMAIN index[c] :
            Writers(c, p) # {} =>
                CurrentSalience(index[c][p])
                    \in SerialOutcomes(CurrentSalience(pre[c][p]),
                                       Writers(c, p), p)

\* a caller between get_reranker() and the end of rerank() holds a reranker
\* whose model is loaded
C30_NoUnloadInUse ==
    \A t \in Threads : threads[t].pc = "rerank" => Live(t)

\* every concurrent search that found candidates returns them reranked
C30_RerankedResults ==
    \A t \in Threads :
        (threads[t].op = "search" /\ threads[t].pc = "done"
            /\ threads[t].candidates # <<>>) =>
            /\ threads[t].reranked
            /\ \A i \in 1..Len(threads[t].result) :
                  threads[t].result[i].rerank_score # <<>>
            /\ NonIncreasing(threads[t].result, "rerank_score")

\* once a search has reranked, the reranker is resident between searches
C30_Resident ==
    (AllDone /\ generation > 0) => reranker = "loaded"

\* C30: with a reranker that loads, every search with candidates returns
\* them in rerank order, each with its rerank_score, however it interleaves
\* with other searches; no release unloads the model while another search is
\* between get_reranker() and the end of its rerank(); and the reranker stays
\* resident between searches.
C30_RerankUndisturbed ==
    /\ C30_RerankedResults
    /\ C30_NoUnloadInUse
    /\ C30_Resident

====
